---------------------------- MODULE Spec2Model ----------------------------
(***************************************************************************)
(* Caption segmentation and subtitle timeline synthesis of yt-shorts.      *)
(*                                                                         *)
(* Strings are sequences of one-character strings, so that the string      *)
(* operations of the code (membership, join, split, strip) are computed.   *)
(*                                                                         *)
(* Numbers are held in fixed point: the integer v stands for the Python    *)
(* number v / Thousand.  The Python int 300 is PyInt(300) = 300000, the    *)
(* Python float 0.3 is 300, so that x / 1000.0 is computed, not assumed.   *)
(***************************************************************************)
EXTENDS Integers, Sequences, FiniteSets, TLC

VARIABLES
    pc,        \* position of the caller: "start" before the call, "done" after
    fn,        \* the function that was called, "" before the call
    words,     \* create_caption_groups: the argument `words`
    document,  \* the caption file read by the Cue Parser, as its cue blocks
    time_str,  \* the argument of the timestamp decoders
    window,    \* extract_transcript_for_segment: <<start_sec, end_sec>>
    content,   \* remove_unnecessary_backslashes: the argument `text`
    caption_groups,  \* the caption groups handed to a subtitle renderer
    cue_segments,  \* estimate_word_timings: the argument `segments`
    start_offset,  \* estimate_word_timings: the argument `start_offset`
    sheet,  \* the rows of the spreadsheet: [status, podcast_url]
    step_log,  \* run_pipeline: the steps run so far: [script, ending, returncode]
    banner,  \* run_pipeline: PIPELINE COMPLETED SUCCESSFULLY was printed
    highlights_file,  \* highlights.json: 0 when absent, else the number of highlights in it
    segment_files,  \* the i with a file segment_i.mp4
    processed_videos,  \* create_ai_captions.main: the i whose segment_i.mp4 was captioned
    ret        \* the outcome of the call: [raised, value]

vars == <<pc, fn, words, document, time_str, window, content, caption_groups, cue_segments, start_offset, sheet, step_log, banner, highlights_file, segment_files, processed_videos, ret>>

---------------------------------------------------------------------------
(* Numbers *)

Thousand == 1000

\* the Python int i
PyInt(i) == i * Thousand

\* x / 1000.0
DivThousand(x) == x \div Thousand

---------------------------------------------------------------------------
(* Strings *)

\* sub in s, for a one-character sub
CharIn(c, s) == \E k \in DOMAIN s : s[k] = c

RECURSIVE JoinFrom(_, _, _)
JoinFrom(sep, strs, k) ==
    IF k > Len(strs) THEN <<>>
    ELSE IF k = Len(strs) THEN strs[k]
    ELSE strs[k] \o sep \o JoinFrom(sep, strs, k + 1)

\* sep.join(strs)
Join(sep, strs) == JoinFrom(sep, strs, 1)

\* s[k:].startswith(sub), k counted from 1
MatchAt(s, sub, k) ==
    /\ k + Len(sub) - 1 <= Len(s)
    /\ SubSeq(s, k, k + Len(sub) - 1) = sub

\* s.startswith(prefix)
StartsWith(s, prefix) == MatchAt(s, prefix, 1)

\* sub in s
Contains(s, sub) == \E k \in 1..(Len(s) + 1) : MatchAt(s, sub, k)

Whitespace == {" ", "\t", "\n", "\r"}

RECURSIVE LStrip(_)
LStrip(s) == IF s # <<>> /\ s[1] \in Whitespace THEN LStrip(Tail(s)) ELSE s

RECURSIVE RStrip(_)
RStrip(s) ==
    IF s # <<>> /\ s[Len(s)] \in Whitespace THEN RStrip(SubSeq(s, 1, Len(s) - 1)) ELSE s

\* s.strip()
Strip(s) == RStrip(LStrip(s))

\* s.find(sub, k - 1) + 1: the first k' >= k where sub stands in s, 0 if none
Find(s, sub, k) ==
    LET found == {j \in k..Len(s) : MatchAt(s, sub, j)}
    IN  IF found = {} THEN 0 ELSE CHOOSE j \in found : \A i \in found : j <= i

\* the places where sub stands in s, in increasing order
Occurrences(s, sub) == SelectSeq([j \in 1..Len(s) |-> j], LAMBDA j : MatchAt(s, sub, j))

\* the pieces of s[k:] between the occurrences of sep, which stands at the
\* places from the n-th on
RECURSIVE SplitFrom(_, _, _, _, _)
SplitFrom(s, sep, k, places, n) ==
    IF n > Len(places) THEN << SubSeq(s, k, Len(s)) >>
    ELSE IF places[n] < k THEN SplitFrom(s, sep, k, places, n + 1)
    ELSE << SubSeq(s, k, places[n] - 1) >>
         \o SplitFrom(s, sep, places[n] + Len(sep), places, n + 1)

\* s.split(sep), sep not empty
Split(s, sep) == SplitFrom(s, sep, 1, Occurrences(s, sep), 1)

\* s[k:] with the occurrences of old, which stands at the places from the n-th
\* on, replaced by new
RECURSIVE ReplaceFrom(_, _, _, _, _, _)
ReplaceFrom(s, old, new, k, places, n) ==
    IF n > Len(places) THEN SubSeq(s, k, Len(s))
    ELSE IF places[n] < k THEN ReplaceFrom(s, old, new, k, places, n + 1)
    ELSE SubSeq(s, k, places[n] - 1) \o new
         \o ReplaceFrom(s, old, new, places[n] + Len(old), places, n + 1)

\* s.replace(old, new), old not empty
Replace(s, old, new) == ReplaceFrom(s, old, new, 1, Occurrences(s, old), 1)

Digits == {"0", "1", "2", "3", "4", "5", "6", "7", "8", "9"}

DigitValue(c) ==
    CASE c = "0" -> 0 [] c = "1" -> 1 [] c = "2" -> 2 [] c = "3" -> 3 [] c = "4" -> 4
      [] c = "5" -> 5 [] c = "6" -> 6 [] c = "7" -> 7 [] c = "8" -> 8 [] c = "9" -> 9

\* s.isdigit()
IsDigit(s) == s # <<>> /\ \A k \in DOMAIN s : s[k] \in Digits

\* the number a string of digits writes; 0 for the empty string
RECURSIVE DigitsValue(_)
DigitsValue(ds) ==
    IF ds = <<>> THEN 0
    ELSE 10 * DigitsValue(SubSeq(ds, 1, Len(ds) - 1)) + DigitValue(ds[Len(ds)])

---------------------------------------------------------------------------
(* create_ai_captions.create_caption_groups *)

MaxGroupSize == 4

\* 3.0
MaxGroupSpan == 3 * Thousand

Punctuation == {".", "!", "?", ","}

\* any(p in word['text'] for p in ['.', '!', '?', ','])
HasPunctuation(text) == \E p \in Punctuation : CharIn(p, text)

Outcome(raised, value) == [raised |-> raised, value |-> value]

\* the condition of the loop body with the punctuation looked for in the last
\* word of the group in progress, not in the incoming word
StartsNewGroup_AfterPunctuation(current_group, word) ==
    \/ current_group = <<>>
    \/ Len(current_group) >= MaxGroupSize
    \/ HasPunctuation(current_group[Len(current_group)].text)
    \/ /\ current_group # <<>>
       /\ DivThousand(word.start - current_group[1].start) > MaxGroupSpan

\* the condition of the loop body with the span measured from the previous word
StartsNewGroup_FromPrevious(current_group, word) ==
    \/ current_group = <<>>
    \/ Len(current_group) >= MaxGroupSize
    \/ HasPunctuation(word.text)
    \/ /\ current_group # <<>>
       /\ DivThousand(word.start - current_group[Len(current_group)].start) > MaxGroupSpan

\* the condition of the loop body with > in place of >= on the group's size
StartsNewGroup_SizeOffByOne(current_group, word) ==
    \/ current_group = <<>>
    \/ Len(current_group) > MaxGroupSize
    \/ HasPunctuation(word.text)
    \/ /\ current_group # <<>>
       /\ DivThousand(word.start - current_group[1].start) > MaxGroupSpan

\* the condition under which the loop body closes the group in progress
StartsNewGroup(current_group, word) ==
    \/ current_group = <<>>
    \/ Len(current_group) >= MaxGroupSize
    \/ HasPunctuation(word.text)
    \/ /\ current_group # <<>>
       /\ DivThousand(word.start - current_group[1].start) > MaxGroupSpan

\* the caption record with its end taken from the first word
MakeCaption_EndOfFirst(current_group) ==
    [ words |-> current_group,
      text  |-> Join(<<" ">>, [k \in DOMAIN current_group |-> current_group[k].text]),
      start |-> DivThousand(current_group[1].start),
      end   |-> DivThousand(current_group[1].end) ]

\* the caption record with the 0.1 s display buffer of create_word_groups
MakeCaption_EndBuffer(current_group) ==
    [ words |-> current_group,
      text  |-> Join(<<" ">>, [k \in DOMAIN current_group |-> current_group[k].text]),
      start |-> DivThousand(current_group[1].start),
      end   |-> DivThousand(current_group[Len(current_group)].end) + 100 ]

\* the dict appended to captions
MakeCaption(current_group) ==
    [ words |-> current_group,
      text  |-> Join(<<" ">>, [k \in DOMAIN current_group |-> current_group[k].text]),
      start |-> DivThousand(current_group[1].start),
      end   |-> DivThousand(current_group[Len(current_group)].end) ]

\* the for loop from word k on: the pair <<captions, current_group>> it ends with
RECURSIVE GroupLoop(_, _, _, _)
GroupLoop(ws, k, captions, current_group) ==
    IF k > Len(ws) THEN <<captions, current_group>>
    ELSE IF StartsNewGroup(current_group, ws[k])
         THEN GroupLoop(ws, k + 1,
                        IF current_group # <<>>
                        THEN Append(captions, MakeCaption(current_group))
                        ELSE captions,
                        <<ws[k]>>)
         ELSE GroupLoop(ws, k + 1, captions, Append(current_group, ws[k]))

\* the function without the flush after the loop
create_caption_groups_NoFinalFlush(ws) ==
    IF ws = <<>> THEN Outcome("none", <<>>)
    ELSE Outcome("none", GroupLoop(ws, 1, <<>>, <<>>)[1])

create_caption_groups(ws) ==
    IF ws = <<>> THEN Outcome("none", <<>>)
    ELSE LET end == GroupLoop(ws, 1, <<>>, <<>>)
         IN  Outcome("none",
                     IF end[2] # <<>> THEN Append(end[1], MakeCaption(end[2]))
                     ELSE end[1])

---------------------------------------------------------------------------
(* Inputs of the Word Grouper: transcript words, times in milliseconds *)

MaxWords == 5

Word(text, start, end) == [text |-> text, start |-> PyInt(start), end |-> PyInt(end)]

WordPool ==
    { Word(<<"H","i">>, 0, 300),
      Word(<<"t","h","e","r","e",",">>, 300, 600),
      Word(<<"f","r","i","e","n","d">>, 600, 900),
      Word(<<"g","o">>, 3000, 3700),
      Word(<<"n","o","w">>, 3700, 3900),
      Word(<<"o","k",".">>, 3900, 3900),
      Word(<<"u","h">>, 900, 600) }

WordLists == UNION { [1..n -> WordPool] : n \in 0..MaxWords }

NoOutcome == Outcome("none", <<>>)

---------------------------------------------------------------------------
(* The Word Grouper called on one transcript *)

Init ==
    /\ pc = "start"
    /\ fn = ""
    /\ words \in WordLists
    /\ document = <<>>
    /\ time_str = <<>>
    /\ window = <<0, 0>>
    /\ content = <<>>
    /\ caption_groups = <<>>
    /\ cue_segments = <<>>
    /\ start_offset = 0
    /\ sheet = <<>>
    /\ step_log = <<>>
    /\ banner = FALSE
    /\ highlights_file = 0
    /\ segment_files = {}
    /\ processed_videos = <<>>
    /\ ret = NoOutcome

CallCreateCaptionGroups ==
    /\ pc = "start"
    /\ ret' = create_caption_groups(words)
    /\ pc' = "done"
    /\ fn' = "create_caption_groups"
    /\ UNCHANGED <<words, document, time_str, window, content, caption_groups, cue_segments, start_offset, sheet, step_log, banner, highlights_file, segment_files, processed_videos>>

Next == CallCreateCaptionGroups

Spec == Init /\ [][Next]_vars

---------------------------------------------------------------------------
(* Properties of the Word Grouper *)

Returned == pc = "done" /\ fn = "create_caption_groups" /\ ret.raised = "none"

Groups == ret.value

\* the words of the groups, in group order
RECURSIVE ConcatWords(_, _)
ConcatWords(groups, k) ==
    IF k > Len(groups) THEN <<>>
    ELSE groups[k].words \o ConcatWords(groups, k + 1)

\* text is the words' texts in order with exactly one space between two of them
RECURSIVE IsSpaceJoined(_, _, _)
IsSpaceJoined(text, ws, k) ==
    LET t == ws[k].text
    IN  IF Len(text) < Len(t) THEN FALSE
        ELSE /\ SubSeq(text, 1, Len(t)) = t
             /\ IF k = Len(ws) THEN Len(text) = Len(t)
                ELSE /\ Len(text) > Len(t)
                     /\ text[Len(t) + 1] = " "
                     /\ IsSpaceJoined(SubSeq(text, Len(t) + 2, Len(text)), ws, k + 1)

\* sorted by start, each start <= end, each end <= the next word's start
SortedTiled(ws) ==
    /\ \A k \in DOMAIN ws : ws[k].start <= ws[k].end
    /\ \A k \in 1..(Len(ws) - 1) : /\ ws[k].start <= ws[k + 1].start
                                   /\ ws[k].end <= ws[k + 1].start

HiThereFriend ==
    << Word(<<"H","i">>, 0, 300),
       Word(<<"t","h","e","r","e",",">>, 300, 600),
       Word(<<"f","r","i","e","n","d">>, 600, 900) >>

C2_GroupsPartitionInput ==
    Returned =>
        /\ \A g \in DOMAIN Groups : Groups[g].words # <<>>
        /\ ConcatWords(Groups, 1) = words
        /\ words = <<>> => Groups = <<>>

C2_Witness ==
    /\ Returned
    /\ Len(words) >= 5
    /\ Len(Groups) >= 3
    /\ \E g \in DOMAIN Groups : Len(Groups[g].words) >= 2

\* C3: a word with start > end makes the call fail with ValueError; no groups
\* are returned for such an input.
C3_InvertedWordRaisesValueError ==
    (pc = "done" /\ fn = "create_caption_groups" /\ \E k \in DOMAIN words : words[k].start > words[k].end)
        => ret.raised = "ValueError"

\* C4: in every group the start of the last word minus the start of the first
\* word is at most 3.0 seconds, whatever began the group and whatever the order
\* of the start times.
C4_GroupSpanAtMostMax ==
    Returned =>
        \A g \in DOMAIN Groups :
            LET ws == Groups[g].words
            IN  ws[Len(ws)].start - ws[1].start <= PyInt(3000)

C4_Witness ==
    /\ Returned
    /\ \E k \in 1..(Len(words) - 1) : words[k].start > words[k + 1].start
    /\ \E g \in DOMAIN Groups :
           LET ws == Groups[g].words
           IN  /\ ws[Len(ws)].start - ws[1].start = PyInt(3000)
    /\ \E g \in DOMAIN Groups :
           /\ HasPunctuation(Groups[g].words[1].text)
           /\ Len(Groups[g].words) >= 2

\* C5: every group holds at most 4 words.
C5_GroupSizeAtMostMax ==
    Returned => \A g \in DOMAIN Groups : Len(Groups[g].words) <= 4

C5_Witness ==
    /\ Returned
    /\ \E g \in 1..(Len(Groups) - 1) :
           /\ Len(Groups[g].words) = 4
           /\ ~HasPunctuation(Groups[g + 1].words[1].text)
           /\ Groups[g + 1].words[1].start - Groups[g].words[1].start <= PyInt(3000)

\* C6 as claimed: the group's start and end are the values held in its first
\* and last word records, and its text is the single-space join of the texts.
C6_GroupTimesAreWordFields ==
    Returned =>
        \A g \in DOMAIN Groups :
            LET ws == Groups[g].words
            IN  /\ Groups[g].start = ws[1].start
                /\ Groups[g].end = ws[Len(ws)].end
                /\ IsSpaceJoined(Groups[g].text, ws, 1)

\* C6 as amended: the group's start and end, in seconds, are the start of its
\* first word and the end of its last word, which are in milliseconds, divided
\* by 1000; its text is the single-space join of the texts.
C6_GroupTimesAreWordFieldsInSeconds ==
    Returned =>
        \A g \in DOMAIN Groups :
            LET ws == Groups[g].words
            IN  /\ Groups[g].start * 1000 = ws[1].start
                /\ Groups[g].end * 1000 = ws[Len(ws)].end
                /\ IsSpaceJoined(Groups[g].text, ws, 1)

C6_Witness ==
    /\ Returned
    /\ \E g \in DOMAIN Groups :
           /\ Len(Groups[g].words) >= 3
           /\ Groups[g].start > 0
           /\ Groups[g].end > Groups[g].start

\* C7: for input sorted by start with start <= end and each end <= the next
\* start, the groups are in non-decreasing start order, each has start <= end,
\* and each ends no later than the next begins.
C7_GroupsOrderedDisjoint ==
    (Returned /\ SortedTiled(words)) =>
        /\ \A g \in DOMAIN Groups : Groups[g].start <= Groups[g].end
        /\ \A g \in 1..(Len(Groups) - 1) :
               /\ Groups[g].start <= Groups[g + 1].start
               /\ Groups[g].end <= Groups[g + 1].start

C7_Witness ==
    /\ Returned
    /\ SortedTiled(words)
    /\ Len(Groups) >= 3
    /\ \E g \in 1..(Len(Groups) - 1) :
           /\ Len(Groups[g].words) >= 2
           /\ Groups[g].end = Groups[g + 1].start

---------------------------------------------------------------------------
(* int() and float() on the characters the caption files are written with.  *)
(* Python also accepts digit-group underscores, exponents and the words inf  *)
(* and nan; no input of this model holds them.                               *)

Signs == {"+", "-"}

Unsigned(t) == IF t # <<>> /\ t[1] \in Signs THEN Tail(t) ELSE t

SignOf(t) == IF t # <<>> /\ t[1] = "-" THEN -1 ELSE 1

\* int(s): the outcome is the int, or ValueError
ParseInt(s) ==
    LET t == Strip(s)
    IN  IF IsDigit(Unsigned(t))
        THEN Outcome("none", SignOf(t) * PyInt(DigitsValue(Unsigned(t))))
        ELSE Outcome("ValueError", 0)

\* the value of the digits after the decimal point, in thousandths
FractionValue(ds) == DigitsValue(SubSeq(ds \o <<"0", "0", "0">>, 1, 3))

\* float(s): the outcome is the float, or ValueError
ParseFloat(s) ==
    LET t     == Strip(s)
        parts == Split(Unsigned(t), <<".">>)
    IN  IF /\ Len(parts) \in {1, 2}
           /\ \A k \in DOMAIN parts : parts[k] = <<>> \/ IsDigit(parts[k])
           /\ \E k \in DOMAIN parts : parts[k] # <<>>
        THEN Outcome("none",
                     SignOf(t) * (PyInt(DigitsValue(parts[1]))
                                  + (IF Len(parts) = 2 THEN FractionValue(parts[2]) ELSE 0)))
        ELSE Outcome("ValueError", 0)

---------------------------------------------------------------------------
(* The decoders of source timestamps *)

SecondsPerHour == 3600

SecondsPerMinute == 60

\* int(hours) * 3600 + int(minutes) * 60 + float(seconds)
HoursMinutesSeconds(hours, minutes, seconds) ==
    LET h == ParseInt(hours)
        m == ParseInt(minutes)
        sec == ParseFloat(seconds)
    IN  IF h.raised # "none" THEN h
        ELSE IF m.raised # "none" THEN m
        ELSE IF sec.raised # "none" THEN sec
        ELSE Outcome("none", h.value * SecondsPerHour + m.value * SecondsPerMinute + sec.value)

\* int(minutes) * 60 + float(seconds)
MinutesSeconds(minutes, seconds) ==
    LET m == ParseInt(minutes)
        sec == ParseFloat(seconds)
    IN  IF m.raised # "none" THEN m
        ELSE IF sec.raised # "none" THEN sec
        ELSE Outcome("none", m.value * SecondsPerMinute + sec.value)

\* find_highlights.vtt_time_to_seconds
vtt_time_to_seconds(time_string) ==
    LET parts == Split(time_string, <<":">>)
    IN  IF Len(parts) = 3 THEN HoursMinutesSeconds(parts[1], parts[2], parts[3])
        ELSE IF Len(parts) = 2 THEN MinutesSeconds(parts[1], parts[2])
        ELSE ParseFloat(parts[1])

\* create_word_captions.parse_vtt_time_to_seconds; `m, s = parts` raises
\* ValueError when parts has not two elements
parse_vtt_time_to_seconds(time_string) ==
    LET parts == Split(Replace(time_string, <<",">>, <<".">>), <<":">>)
    IN  IF Len(parts) = 3 THEN HoursMinutesSeconds(parts[1], parts[2], parts[3])
        ELSE IF Len(parts) = 2 THEN MinutesSeconds(parts[1], parts[2])
        ELSE Outcome("ValueError", 0)

---------------------------------------------------------------------------
(* Inputs of the decoders: up to MaxFields fields joined by colons *)

MaxFields == 4

FieldPool ==
    { <<"0","0">>, <<"0","1">>, <<"0","2",".","5","0","0">>, <<"0","3",",","2","5","0">>,
      <<"x","x">>, <<>> }

TimeStrings ==
    { Join(<<":">>, fields) : fields \in UNION { [1..n -> FieldPool] : n \in 1..MaxFields } }

InitTimestamp ==
    /\ pc = "start"
    /\ fn = ""
    /\ words = <<>>
    /\ document = <<>>
    /\ time_str \in TimeStrings
    /\ window = <<0, 0>>
    /\ content = <<>>
    /\ caption_groups = <<>>
    /\ cue_segments = <<>>
    /\ start_offset = 0
    /\ sheet = <<>>
    /\ step_log = <<>>
    /\ banner = FALSE
    /\ highlights_file = 0
    /\ segment_files = {}
    /\ processed_videos = <<>>
    /\ ret = NoOutcome

CallVttTimeToSeconds ==
    /\ pc = "start"
    /\ ret' = vtt_time_to_seconds(time_str)
    /\ pc' = "done"
    /\ fn' = "vtt_time_to_seconds"
    /\ UNCHANGED <<words, document, time_str, window, content, caption_groups, cue_segments, start_offset, sheet, step_log, banner, highlights_file, segment_files, processed_videos>>

CallParseVttTimeToSeconds ==
    /\ pc = "start"
    /\ ret' = parse_vtt_time_to_seconds(time_str)
    /\ pc' = "done"
    /\ fn' = "parse_vtt_time_to_seconds"
    /\ UNCHANGED <<words, document, time_str, window, content, caption_groups, cue_segments, start_offset, sheet, step_log, banner, highlights_file, segment_files, processed_videos>>

NextTimestamp == CallVttTimeToSeconds \/ CallParseVttTimeToSeconds

SpecTimestamp == InitTimestamp /\ [][NextTimestamp]_vars

---------------------------------------------------------------------------
(* Properties of the decoders *)

Decoders == {"vtt_time_to_seconds", "parse_vtt_time_to_seconds"}

\* a field that writes no number: it holds no digit, or a character that is
\* not a digit or a decimal mark
NonNumericField(field) ==
    \/ \A k \in DOMAIN field : field[k] \notin Digits
    \/ \E k \in DOMAIN field : field[k] \notin Digits \cup {".", ","}

Malformed(time_string) ==
    LET fields == Split(time_string, <<":">>)
    IN  \/ Len(fields) \notin {2, 3}
        \/ \E k \in DOMAIN fields : NonNumericField(fields[k])

\* C9: each of the two decoders raises ValueError when its input has neither
\* 2 nor 3 colon-separated fields or has a non-numeric field; it returns no
\* number for such an input.
C9_DecodersRejectMalformed ==
    (pc = "done" /\ fn \in Decoders /\ Malformed(time_str)) => ret.raised = "ValueError"

---------------------------------------------------------------------------
(* find_highlights.parse_vtt_captions *)

ArrowMark == <<"-","-",">">>

ArrowSeparator == <<" ","-","-",">"," ">>

\* the four replace calls that remove the VTT formatting tags
StripTags(text) ==
    Replace(Replace(Replace(Replace(text, <<"<","c",">">>, <<>>), <<"<","/","c",">">>, <<>>),
                    <<"<","v"," ">>, <<>>), <<">">>, <<>>)

\* header, empty, comment and sequence-number lines
IsSkippedLine(line) ==
    \/ StartsWith(line, <<"W","E","B","V","T","T">>)
    \/ line = <<>>
    \/ StartsWith(line, <<"N","O","T","E">>)
    \/ IsDigit(line)

\* the inner while loop stopping at a blank line only, as the loop of
\* extract_transcript_for_segment does
RECURSIVE CollectTextLines_UntilBlank(_, _, _)
CollectTextLines_UntilBlank(lines, i, text_lines) ==
    IF /\ i <= Len(lines)
       /\ Strip(lines[i]) # <<>>
    THEN LET clean_text == StripTags(Strip(lines[i]))
         IN  CollectTextLines_UntilBlank(lines, i + 1,
                                         IF ~IsDigit(Strip(lines[i])) /\ clean_text # <<>>
                                         THEN Append(text_lines, clean_text)
                                         ELSE text_lines)
    ELSE <<i, text_lines>>

\* the inner while loop from line i on: <<i, text_lines>> when it stops
RECURSIVE CollectTextLines(_, _, _)
CollectTextLines(lines, i, text_lines) ==
    IF /\ i <= Len(lines)
       /\ ~Contains(Strip(lines[i]), ArrowMark)
       /\ Strip(lines[i]) # <<>>
    THEN LET clean_text == StripTags(Strip(lines[i]))
         IN  CollectTextLines(lines, i + 1,
                              IF ~IsDigit(Strip(lines[i])) /\ clean_text # <<>>
                              THEN Append(text_lines, clean_text)
                              ELSE text_lines)
    ELSE <<i, text_lines>>

\* the outer while loop from line i on; an error raised by the decoder is not
\* caught and ends the call
RECURSIVE ParseLoop(_, _, _)
ParseLoop(lines, i, segments) ==
    IF i > Len(lines) THEN Outcome("none", segments)
    ELSE LET line  == Strip(lines[i])
             parts == Split(line, ArrowSeparator)
         IN  IF IsSkippedLine(line) THEN ParseLoop(lines, i + 1, segments)
             ELSE IF Contains(line, ArrowMark) /\ Len(parts) = 2
             THEN LET start_time == vtt_time_to_seconds(parts[1])
                      end_time   == vtt_time_to_seconds(parts[2])
                      collected  == CollectTextLines(lines, i + 1, <<>>)
                  IN  IF start_time.raised # "none" THEN Outcome(start_time.raised, <<>>)
                      ELSE IF end_time.raised # "none" THEN Outcome(end_time.raised, <<>>)
                      ELSE ParseLoop(lines, collected[1],
                                     IF collected[2] # <<>>
                                     THEN Append(segments,
                                                 [ start |-> start_time.value,
                                                   end   |-> end_time.value,
                                                   text  |-> Join(<<" ">>, collected[2]) ])
                                     ELSE segments)
             ELSE ParseLoop(lines, i + 1, segments)

parse_vtt_captions(lines) == ParseLoop(lines, 1, <<>>)

---------------------------------------------------------------------------
(* Inputs of the Cue Parser: a header and up to MaxCues cue blocks *)

MaxCues == 3

HeaderLines == << <<"W","E","B","V","T","T">>, <<>> >>

\* index line, HH:MM:SS.mmm range, two text lines, blank line
IndexedBlock ==
    << <<"1">>,
       <<"0","0",":","0","0",":","0","1",".","0","0","0"," ","-","-",">"," ","0","0",":","0","0",":","0","3",".","0","0","0">>,
       <<"H","e","l","l","o">>,
       <<"w","o","r","l","d">>,
       <<>> >>

\* styling tags around the text, no blank line after the block
TaggedBlock ==
    << <<"0","0",":","0","0",":","0","4",".","0","0","0"," ","-","-",">"," ","0","0",":","0","0",":","0","5",".","5","0","0">>,
       <<"<","c",">","B","y","e","<","/","c",">">> >>

\* MM:SS.mmm range
ShortBlock ==
    << <<"0","0",":","0","6",".","0","0","0"," ","-","-",">"," ","0","0",":","0","7",".","2","5","0">>,
       <<"s","o","o","n">>,
       <<>> >>

\* a non-numeric field in the start timestamp
GarbledBlock ==
    << <<"0","0",":","x","x",":","0","8",".","0","0","0"," ","-","-",">"," ","0","0",":","0","0",":","0","9",".","0","0","0">>,
       <<"l","o","s","t">>,
       <<>> >>

\* cue settings after the end timestamp: its colon-separated fields are four
SettingsBlock ==
    << <<"0","0",":","0","0",":","1","0",".","0","0","0"," ","-","-",">"," ","0","0",":","0","0",":","1","1",".","0","0","0"," ","a","l","i","g","n",":","s","t","a","r","t">>,
       <<"c","u","e">>,
       <<>> >>

\* end equal to start
InstantBlock ==
    << <<"0","0",":","0","0",":","1","2",".","0","0","0"," ","-","-",">"," ","0","0",":","0","0",":","1","2",".","0","0","0">>,
       <<"b","l","i","p">>,
       <<>> >>

\* no text left once the tags are removed
MuteBlock ==
    << <<"0","0",":","0","0",":","1","3",".","0","0","0"," ","-","-",">"," ","0","0",":","0","0",":","1","4",".","0","0","0">>,
       <<"<","c",">","<","/","c",">">>,
       <<>> >>

\* a text line made of digits only
NumberTextBlock ==
    << <<"0","0",":","0","0",":","1","5",".","0","0","0"," ","-","-",">"," ","0","0",":","0","0",":","1","6",".","0","0","0">>,
       <<"i","n">>,
       <<"2","0","2","4">>,
       <<>> >>

BlockPool ==
    { IndexedBlock, TaggedBlock, ShortBlock, GarbledBlock, SettingsBlock, InstantBlock,
      MuteBlock, NumberTextBlock }

Documents == UNION { [1..n -> BlockPool] : n \in 0..MaxCues }

RECURSIVE Flatten(_, _)
Flatten(blocks, k) ==
    IF k > Len(blocks) THEN <<>> ELSE blocks[k] \o Flatten(blocks, k + 1)

\* f.readlines() of the file holding the blocks
LinesOf(blocks) == HeaderLines \o Flatten(blocks, 1)

InitCueParser ==
    /\ pc = "start"
    /\ fn = ""
    /\ words = <<>>
    /\ document \in Documents
    /\ time_str = <<>>
    /\ window = <<0, 0>>
    /\ content = <<>>
    /\ caption_groups = <<>>
    /\ cue_segments = <<>>
    /\ start_offset = 0
    /\ sheet = <<>>
    /\ step_log = <<>>
    /\ banner = FALSE
    /\ highlights_file = 0
    /\ segment_files = {}
    /\ processed_videos = <<>>
    /\ ret = NoOutcome

CallParseVttCaptions ==
    /\ pc = "start"
    /\ ret' = parse_vtt_captions(LinesOf(document))
    /\ pc' = "done"
    /\ fn' = "parse_vtt_captions"
    /\ UNCHANGED <<words, document, time_str, window, content, caption_groups, cue_segments, start_offset, sheet, step_log, banner, highlights_file, segment_files, processed_videos>>

NextCueParser == CallParseVttCaptions

SpecCueParser == InitCueParser /\ [][NextCueParser]_vars

---------------------------------------------------------------------------
(* Properties of the Cue Parser *)

ParsedCaptions == pc = "done" /\ fn = "parse_vtt_captions"

\* the blocks whose timestamp line cannot be decoded as H:M:S.mmm or M:S.mmm
UndecodableBlocks == {GarbledBlock, SettingsBlock}

UndecodableTexts == { <<"l","o","s","t">>, <<"c","u","e">> }

\* the blocks with two decodable timestamps, start < end, and text
SoundBlocks == {IndexedBlock, TaggedBlock, ShortBlock}

IsSoundBlock(block) == block \in SoundBlocks

SegmentOfSoundBlock(block) ==
    CASE block = IndexedBlock ->
             [start |-> 1000, end |-> 3000, text |-> <<"H","e","l","l","o"," ","w","o","r","l","d">>]
      [] block = TaggedBlock ->
             [start |-> 4000, end |-> 5500, text |-> <<"B","y","e">>]
      [] block = ShortBlock ->
             [start |-> 6000, end |-> 7250, text |-> <<"s","o","o","n">>]

IsSoundSegment(segment) ==
    \E block \in SoundBlocks : segment = SegmentOfSoundBlock(block)

\* C8: the parse does not raise when a cue's timestamp line cannot be decoded;
\* that cue is left out and the well-formed cues before and after it are all
\* returned, in document order.
C8_UndecodableCueIsSkipped ==
    ParsedCaptions =>
        /\ ret.raised = "none"
        /\ \A k \in DOMAIN ret.value : ret.value[k].text \notin UndecodableTexts
        /\ LET sound == SelectSeq(document, IsSoundBlock)
           IN  SelectSeq(ret.value, IsSoundSegment)
                   = [k \in DOMAIN sound |-> SegmentOfSoundBlock(sound[k])]

\* C10: every returned segment has start < end and non-empty text.
C10_SegmentsHavePositiveDuration ==
    (ParsedCaptions /\ ret.raised = "none") =>
        \A k \in DOMAIN ret.value :
            /\ ret.value[k].start < ret.value[k].end
            /\ ret.value[k].text # <<>>

\* the blocks of the documented form: an optional index line, one range line
\* with two decodable timestamps, one or more text lines
WellFormedBlocks ==
    {IndexedBlock, TaggedBlock, ShortBlock, InstantBlock, MuteBlock, NumberTextBlock}

WellFormedDocument == \A k \in DOMAIN document : document[k] \in WellFormedBlocks

\* the position of the range line of a block
RangeLineOf(block) == CHOOSE k \in DOMAIN block : Contains(block[k], ArrowMark)

IsTextLine(line) == line # <<>>

\* the text lines of a block as they stand in the file
TextLinesOf(block) == SelectSeq(SubSeq(block, RangeLineOf(block) + 1, Len(block)), IsTextLine)

\* the timestamps of the range line of a block
RangeOf(block) == Split(block[RangeLineOf(block)], ArrowSeparator)

\* C11 as claimed: a document of N well-formed cue blocks gives exactly N
\* segments in document order, each with the decoded start and end and with
\* its text lines joined by one space; the one-cue document with index 1, range
\* 00:00:01.000 --> 00:00:03.000 and text Hello world gives exactly the segment
\* {1.0, 3.0, Hello world}.
C11_OneSegmentPerBlock ==
    (ParsedCaptions /\ WellFormedDocument) =>
        /\ ret.raised = "none"
        /\ Len(ret.value) = Len(document)
        /\ \A k \in DOMAIN document :
               /\ ret.value[k].start = vtt_time_to_seconds(RangeOf(document[k])[1]).value
               /\ ret.value[k].end = vtt_time_to_seconds(RangeOf(document[k])[2]).value
               /\ ret.value[k].text = Join(<<" ">>, TextLinesOf(document[k]))
        /\ document = <<IndexedBlock>> =>
               ret.value = << [start |-> 1000, end |-> 3000, text |-> <<"H","e","l","l","o"," ","w","o","r","l","d">>] >>

\* the blocks that keep text once digit-only lines and tags are taken out
HasCaptionText(block) == block \in WellFormedBlocks \ {MuteBlock}

SegmentOfBlock(block) ==
    CASE block = IndexedBlock ->
             [start |-> 1000, end |-> 3000, text |-> <<"H","e","l","l","o"," ","w","o","r","l","d">>]
      [] block = TaggedBlock ->
             [start |-> 4000, end |-> 5500, text |-> <<"B","y","e">>]
      [] block = ShortBlock ->
             [start |-> 6000, end |-> 7250, text |-> <<"s","o","o","n">>]
      [] block = InstantBlock ->
             [start |-> 12000, end |-> 12000, text |-> <<"b","l","i","p">>]
      [] block = NumberTextBlock ->
             [start |-> 15000, end |-> 16000, text |-> <<"i","n">>]

\* C11 as amended: a document of well-formed cue blocks gives, in document
\* order, one segment for each block that keeps text once its digit-only lines
\* are left out and the tags <c>, </c>, "<v " and ">" are removed from the
\* others, with the decoded start and end and that text joined by one space; a
\* block that keeps no text gives no segment; the one-cue document gives exactly
\* {1.0, 3.0, Hello world}.
C11_OneSegmentPerBlockWithText ==
    (ParsedCaptions /\ WellFormedDocument) =>
        /\ ret.raised = "none"
        /\ LET kept == SelectSeq(document, HasCaptionText)
           IN  ret.value = [k \in DOMAIN kept |-> SegmentOfBlock(kept[k])]
        /\ document = <<IndexedBlock>> =>
               ret.value = << [start |-> 1000, end |-> 3000, text |-> <<"H","e","l","l","o"," ","w","o","r","l","d">>] >>

C11_Witness ==
    /\ ParsedCaptions
    /\ WellFormedDocument
    /\ Len(document) = 3
    /\ document[1] = TaggedBlock
    /\ document[2] = IndexedBlock
    /\ Len(ret.value) = 3

---------------------------------------------------------------------------
(* create_word_captions.extract_transcript_for_segment *)

NbspEntity == <<"&","n","b","s","p",";">>

IsWhitespace(c) == c \in Whitespace

\* the characters of s other than the whitespace that follows whitespace
StartsRun(s) ==
    [k \in DOMAIN s |-> ~(IsWhitespace(s[k]) /\ k > 1 /\ IsWhitespace(s[k - 1]))]

\* re.sub(r'\s+', ' ', s)
CollapseWhitespace(s) ==
    LET kept == {k \in DOMAIN s : StartsRun(s)[k]}
        at(n) == CHOOSE k \in kept : Cardinality({i \in kept : i <= k}) = n
    IN  [n \in 1..Cardinality(kept) |-> IF IsWhitespace(s[at(n)]) THEN " " ELSE s[at(n)]]

\* the inner while loop from line j on: <<j, text_lines>> when it stops
RECURSIVE CollectUntilBlank(_, _, _)
CollectUntilBlank(lines, j, text_lines) ==
    IF j <= Len(lines) /\ Strip(lines[j]) # <<>>
    THEN CollectUntilBlank(lines, j + 1, Append(text_lines, Strip(lines[j])))
    ELSE <<j, text_lines>>

\* the body of the try block for one cue: the segments after it; any
\* exception leaves them as they were
TryAppendSegment(segments, time_line, text_lines, start_sec, end_sec) ==
    LET parts == Split(time_line, ArrowSeparator)
    IN  IF Len(parts) # 2 THEN segments
        ELSE LET seg_start == parse_vtt_time_to_seconds(Strip(parts[1]))
                 seg_end   == parse_vtt_time_to_seconds(Strip(parts[2]))
                 text      == Strip(Replace(Join(<<" ">>, text_lines), NbspEntity, <<" ">>))
             IN  IF seg_start.raised # "none" \/ seg_end.raised # "none" THEN segments
                 ELSE IF seg_start.value <= end_sec /\ seg_end.value >= start_sec
                      THEN Append(segments, [ start |-> seg_start.value,
                                              end   |-> seg_end.value,
                                              text  |-> CollapseWhitespace(text) ])
                      ELSE segments

\* the outer while loop from line i on: the segments it ends with
RECURSIVE ExtractLoop(_, _, _, _, _)
ExtractLoop(lines, i, start_sec, end_sec, segments) ==
    IF i > Len(lines) THEN segments
    ELSE LET line == Strip(lines[i])
         IN  IF Contains(line, ArrowMark)
             THEN LET collected == CollectUntilBlank(lines, i + 1, <<>>)
                  IN  ExtractLoop(lines, collected[1], start_sec, end_sec,
                                  IF collected[2] # <<>>
                                  THEN TryAppendSegment(segments, line, collected[2],
                                                        start_sec, end_sec)
                                  ELSE segments)
             ELSE ExtractLoop(lines, i + 1, start_sec, end_sec, segments)

\* sorted(segments, key=lambda x: x['start']), a stable sort
RECURSIVE SortedByStart(_)
SortedByStart(segments) ==
    IF segments = <<>> THEN <<>>
    ELSE LET front  == SortedByStart(SubSeq(segments, 1, Len(segments) - 1))
             last   == segments[Len(segments)]
             before == Cardinality({k \in DOMAIN front : front[k].start <= last.start})
         IN  SubSeq(front, 1, before) \o <<last>> \o SubSeq(front, before + 1, Len(front))

extract_transcript_for_segment(lines, start_sec, end_sec) ==
    Outcome("none", SortedByStart(ExtractLoop(lines, 1, start_sec, end_sec, <<>>)))

---------------------------------------------------------------------------
(* create_smart_captions.extract_vtt_segment *)

\* the inner while loop from line j on: <<j, text_lines>> when it stops
RECURSIVE CollectSpokenUntilBlank(_, _, _)
CollectSpokenUntilBlank(lines, j, text_lines) ==
    IF j <= Len(lines) /\ Strip(lines[j]) # <<>>
    THEN CollectSpokenUntilBlank(lines, j + 1,
             IF ~IsDigit(Strip(lines[j])) THEN Append(text_lines, Strip(lines[j]))
             ELSE text_lines)
    ELSE <<j, text_lines>>

\* the outer while loop from line i on: the segments it ends with, or the
\* exception of a range line that does not decode
RECURSIVE VttSegmentLoop(_, _, _, _, _)
VttSegmentLoop(lines, i, start_sec, end_sec, segments) ==
    IF i > Len(lines) THEN Outcome("none", segments)
    ELSE LET line == Strip(lines[i])
         IN  IF ~Contains(line, ArrowMark)
             THEN VttSegmentLoop(lines, i + 1, start_sec, end_sec, segments)
             ELSE LET collected == CollectSpokenUntilBlank(lines, i + 1, <<>>)
                      parts     == Split(line, ArrowSeparator)
                      seg_start == parse_vtt_time_to_seconds(Strip(parts[1]))
                      seg_end   == parse_vtt_time_to_seconds(Strip(parts[2]))
                  IN  IF collected[2] = <<>>
                      THEN VttSegmentLoop(lines, collected[1], start_sec, end_sec, segments)
                      ELSE IF Len(parts) # 2 THEN Outcome("ValueError", <<>>)
                      ELSE IF seg_start.raised # "none" THEN Outcome(seg_start.raised, <<>>)
                      ELSE IF seg_end.raised # "none" THEN Outcome(seg_end.raised, <<>>)
                      ELSE VttSegmentLoop(lines, collected[1], start_sec, end_sec,
                               IF seg_start.value < end_sec /\ seg_end.value > start_sec
                               THEN Append(segments, [ start |-> seg_start.value,
                                                       end   |-> seg_end.value,
                                                       text  |-> Join(<<" ">>, collected[2]) ])
                               ELSE segments)

\* the text of the cues in the window, joined by spaces
extract_vtt_segment(lines, start_sec, end_sec) ==
    LET segments == VttSegmentLoop(lines, 1, start_sec, end_sec, <<>>)
    IN  IF segments.raised # "none" THEN segments
        ELSE Outcome("none",
                 Strip(Join(<<" ">>, [k \in DOMAIN segments.value |-> segments.value[k].text])))

---------------------------------------------------------------------------
(* Inputs of extract_transcript_for_segment: a caption file and a window *)

\* a text line with non-breaking space entities
NbspBlock ==
    << <<"0","0",":","0","0",":","1","7",".","0","0","0"," ","-","-",">"," ","0","0",":","0","0",":","1","8",".","5","0","0">>,
       <<"a","&","n","b","s","p",";","&","n","b","s","p",";","b">>,
       <<>> >>

ExtractBlockPool == BlockPool \cup {NbspBlock}

ExtractDocuments == UNION { [1..n -> ExtractBlockPool] : n \in 0..MaxCues }

\* content.split('\n') of the file holding the blocks, which ends with a newline
SplitLinesOf(blocks) == LinesOf(blocks) \o << <<>> >>

\* <<start_sec, end_sec>> in seconds
WindowPool == { <<0, 20000>>, <<3000, 10000>>, <<5500, 6000>>, <<2000, 4500>> }

InitExtract ==
    /\ pc = "start"
    /\ fn = ""
    /\ words = <<>>
    /\ document \in ExtractDocuments
    /\ time_str = <<>>
    /\ window \in WindowPool
    /\ content = <<>>
    /\ caption_groups = <<>>
    /\ cue_segments = <<>>
    /\ start_offset = 0
    /\ sheet = <<>>
    /\ step_log = <<>>
    /\ banner = FALSE
    /\ highlights_file = 0
    /\ segment_files = {}
    /\ processed_videos = <<>>
    /\ ret = NoOutcome

CallExtractTranscriptForSegment ==
    /\ pc = "start"
    /\ ret' = extract_transcript_for_segment(SplitLinesOf(document), window[1], window[2])
    /\ pc' = "done"
    /\ fn' = "extract_transcript_for_segment"
    /\ UNCHANGED <<words, document, time_str, window, content, caption_groups, cue_segments, start_offset, sheet, step_log, banner, highlights_file, segment_files, processed_videos>>

CallExtractVttSegment ==
    /\ pc = "start"
    /\ ret' = extract_vtt_segment(SplitLinesOf(document), window[1], window[2])
    /\ pc' = "done"
    /\ fn' = "extract_vtt_segment"
    /\ UNCHANGED <<words, document, time_str, window, content, caption_groups, cue_segments, start_offset, sheet, step_log, banner, highlights_file, segment_files, processed_videos>>

NextExtract ==
    \/ CallExtractTranscriptForSegment
    \/ CallExtractVttSegment

SpecExtract == InitExtract /\ [][NextExtract]_vars

---------------------------------------------------------------------------
(* Properties of extract_transcript_for_segment *)

Extracted == pc = "done" /\ fn = "extract_transcript_for_segment"

\* a window that every cue of the pool lies inside
WholeFile == <<0 - 1000, 100000>>

\* the cues the function parses from the file, in document order
CuesInDocumentOrder ==
    ExtractLoop(SplitLinesOf(document), 1, WholeFile[1], WholeFile[2], <<>>)

OverlapsWindow(cue) == cue.start < window[2] /\ cue.end > window[1]

\* C12 as claimed: extract_transcript_for_segment(windowStart, windowEnd)
\* returns exactly the parsed cues with cue.start < windowEnd and
\* cue.end > windowStart, a cue that only touches the window at an endpoint
\* being excluded, in their original document order.
C12_WindowSelectsOverlappingCues ==
    Extracted =>
        /\ ret.raised = "none"
        /\ ret.value = SelectSeq(CuesInDocumentOrder, OverlapsWindow)

---------------------------------------------------------------------------
(* create_ai_captions.remove_unnecessary_backslashes *)

\* text.splitlines(), for text whose only line boundary is "\n"
SplitLines(s) ==
    LET pieces == Split(s, <<"\n">>)
    IN  IF pieces[Len(pieces)] = <<>> THEN SubSeq(pieces, 1, Len(pieces) - 1) ELSE pieces

\* where a greedy \{.*\} that starts at i ends: the last "}" after i
BlockEnd_Greedy(line, i) ==
    LET closing == {j \in (i + 1)..Len(line) : line[j] = "}"}
    IN  IF closing = {} THEN 0 ELSE CHOOSE j \in closing : \A m \in closing : m <= j

\* where the match of \{.*?\} that starts at i ends: the first "}" after i, 0 if none
BlockEnd(line, i) == Find(line, <<"}">>, i + 1)

\* re.split(r'(\{.*?\})', line[k - 1:]): text, block, text, ..., block, text
RECURSIVE RegexSplit(_, _)
RegexSplit(line, k) ==
    LET i == Find(line, <<"{">>, k)
        j == IF i = 0 THEN 0 ELSE BlockEnd(line, i)
    IN  IF j = 0 THEN << SubSeq(line, k, Len(line)) >>
        ELSE << SubSeq(line, k, i - 1), SubSeq(line, i, j) >> \o RegexSplit(line, j + 1)

\* s.endswith(suffix)
EndsWith(s, suffix) == MatchAt(s, suffix, Len(s) - Len(suffix) + 1)

\* what the loop body adds to cleaned for the part p
CleanPart(p) ==
    IF StartsWith(p, <<"{">>) /\ EndsWith(p, <<"}">>) THEN p
    ELSE Replace(p, <<"\\">>, <<>>)

clean_line(line) ==
    LET parts == RegexSplit(line, 1)
    IN  Join(<<>>, [k \in DOMAIN parts |-> CleanPart(parts[k])])

remove_unnecessary_backslashes(s) ==
    LET lines == SplitLines(s)
    IN  Join(<<"\n">>, [k \in DOMAIN lines |-> clean_line(lines[k])])

---------------------------------------------------------------------------
(* Inputs of remove_unnecessary_backslashes: texts of up to MaxTextLen characters *)

MaxTextLen == 5

TextAlphabet == {"{", "}", "\\", "a", "\n"}

Texts == UNION { [1..n -> TextAlphabet] : n \in 0..MaxTextLen }

InitCleanup ==
    /\ pc = "start"
    /\ fn = ""
    /\ words = <<>>
    /\ document = <<>>
    /\ time_str = <<>>
    /\ window = <<0, 0>>
    /\ content \in Texts
    /\ caption_groups = <<>>
    /\ cue_segments = <<>>
    /\ start_offset = 0
    /\ sheet = <<>>
    /\ step_log = <<>>
    /\ banner = FALSE
    /\ highlights_file = 0
    /\ segment_files = {}
    /\ processed_videos = <<>>
    /\ ret = NoOutcome

CallRemoveUnnecessaryBackslashes ==
    /\ pc = "start"
    /\ ret' = Outcome("none", remove_unnecessary_backslashes(content))
    /\ pc' = "done"
    /\ fn' = "remove_unnecessary_backslashes"
    /\ UNCHANGED <<words, document, time_str, window, content, caption_groups, cue_segments, start_offset, sheet, step_log, banner, highlights_file, segment_files, processed_videos>>

NextCleanup == CallRemoveUnnecessaryBackslashes

SpecCleanup == InitCleanup /\ [][NextCleanup]_vars

---------------------------------------------------------------------------
(* Properties of remove_unnecessary_backslashes *)

Cleaned == pc = "done" /\ fn = "remove_unnecessary_backslashes"

\* position k of the line lies in a markup block: an opening bracket stands at
\* or before it with no closing bracket in between, and a closing bracket
\* stands at or after it
InBlock(line, k) ==
    /\ \E i \in 1..k :
           /\ line[i] = "{"
           /\ \A m \in i..(k - 1) : line[m] # "}"
    /\ \E j \in k..Len(line) : line[j] = "}"

\* the positions of the line that stay: all but the backslashes outside blocks
Stays(line) == {k \in DOMAIN line : line[k] # "\\" \/ InBlock(line, k)}

\* the characters at the staying positions, in order
Kept(line) ==
    LET at(n) == CHOOSE k \in Stays(line) : Cardinality({i \in Stays(line) : i <= k}) = n
    IN  [n \in 1..Cardinality(Stays(line)) |-> line[at(n)]]

\* the positions of the text that stay, a line boundary being outside every block
StaysInText(s) ==
    {k \in DOMAIN s :
        \/ s[k] # "\\"
        \/ LET before == {b \in 1..(k - 1) : s[b] = "\n"}
               after  == {b \in (k + 1)..Len(s) : s[b] = "\n"}
               first  == IF before = {} THEN 1
                         ELSE 1 + CHOOSE b \in before : \A c \in before : c <= b
               last   == IF after = {} THEN Len(s)
                         ELSE (CHOOSE b \in after : \A c \in after : b <= c) - 1
           IN  InBlock(SubSeq(s, first, last), k - first + 1)}

\* C14 as claimed: remove_unnecessary_backslashes leaves every markup block
\* {...} of every line unchanged, removes every backslash outside such blocks,
\* and keeps all other characters and the order and number of lines: the
\* result is the text without its backslashes outside blocks.
C14_OnlyStrayBackslashesRemoved ==
    Cleaned =>
        LET stays == StaysInText(content)
            at(n) == CHOOSE k \in stays : Cardinality({i \in stays : i <= k}) = n
        IN  ret.value = [n \in 1..Cardinality(stays) |-> content[at(n)]]

\* the text cut at its line boundaries: one more piece than boundaries
LinesOfText(s) == Split(s, <<"\n">>)

\* the lines without the empty piece after a final line boundary
TerminatedLines(s) ==
    LET lines == LinesOfText(s)
    IN  IF lines[Len(lines)] = <<>> THEN SubSeq(lines, 1, Len(lines) - 1) ELSE lines

\* C14 as amended: line by line, remove_unnecessary_backslashes leaves every
\* markup block {...} unchanged, removes every backslash outside such blocks
\* and keeps all other characters, in the same order of lines; the result puts
\* one line boundary between consecutive lines and none after the last line,
\* so the boundary that ended the text is not kept.
C14_OnlyStrayBackslashesRemovedPerLine ==
    Cleaned =>
        LET lines == TerminatedLines(content)
        IN  /\ lines # <<>> =>
                /\ Len(LinesOfText(ret.value)) = Len(lines)
                /\ \A k \in DOMAIN lines : LinesOfText(ret.value)[k] = Kept(lines[k])
            /\ lines = <<>> => ret.value = <<>>

C14_Witness ==
    /\ Cleaned
    /\ content = <<"{", "\\", "}", "\\", "\n">>
    /\ ret.value = <<"{", "\\", "}">>

---------------------------------------------------------------------------
(* Formatting *)

\* the decimal digits of n >= 0
RECURSIVE DecimalDigits(_)
DecimalDigits(n) ==
    LET digit == CHOOSE c \in Digits : DigitValue(c) = n % 10
    IN  IF n < 10 THEN <<digit>> ELSE Append(DecimalDigits(n \div 10), digit)

\* f"{n}" for an int n
FormatInt(n) == IF n < 0 THEN <<"-">> \o DecimalDigits(0 - n) ELSE DecimalDigits(n)

\* f"{n:02d}" for an int n
FormatInt02(n) == IF Len(FormatInt(n)) < 2 THEN <<"0">> \o FormatInt(n) ELSE FormatInt(n)

LowerCase == <<"a","b","c","d","e","f","g","h","i","j","k","l","m","n","o","p","q","r","s","t","u","v","w","x","y","z">>

UpperCase == <<"A","B","C","D","E","F","G","H","I","J","K","L","M","N","O","P","Q","R","S","T","U","V","W","X","Y","Z">>

UpperChar(c) ==
    IF \E k \in DOMAIN LowerCase : LowerCase[k] = c
    THEN UpperCase[CHOOSE k \in DOMAIN LowerCase : LowerCase[k] = c]
    ELSE c

\* s.upper()
Upper(s) == [k \in DOMAIN s |-> UpperChar(s[k])]

\* the lines of a file written one after the other, each ended by a newline
RECURSIVE WriteLines(_, _)
WriteLines(lines, k) ==
    IF k > Len(lines) THEN <<>> ELSE lines[k] \o <<"\n">> \o WriteLines(lines, k + 1)

---------------------------------------------------------------------------
(* create_ai_captions.create_ass_subtitles *)

\* the times t, in milliseconds, among the word times of this model at which
\* the double (t % 1) * 100 is below the whole number of centiseconds of t:
\* 0.58 % 1 * 100 is 57.99999999999999
RoundedDownTimes == {580, 64580}

\* int((t % 1) * 100), which truncates the double product
Centiseconds(t) ==
    IF t \in RoundedDownTimes THEN (t % Thousand) \div 10 - 1 ELSE (t % Thousand) \div 10

\* f"{int(t//3600)}:{int((t%3600)//60):02d}:{int(t%60):02d}.{int((t%1)*100):02d}"
AssTimestamp(t) ==
    FormatInt(t \div (SecondsPerHour * Thousand)) \o <<":">>
    \o FormatInt02((t % (SecondsPerHour * Thousand)) \div (SecondsPerMinute * Thousand)) \o <<":">>
    \o FormatInt02((t % (SecondsPerMinute * Thousand)) \div Thousand) \o <<".">>
    \o FormatInt02(Centiseconds(t))

\* the f-string that opens ass_content, as its lines
AssHeader(video_info) ==
    << <<"[","S","c","r","i","p","t"," ","I","n","f","o","]">>,
       <<"T","i","t","l","e",":"," ","A","I"," ","I","n","-","P","l","a","c","e"," ","W","o","r","d"," ","C","a","p","t","i","o","n","s">>,
       <<"S","c","r","i","p","t","T","y","p","e",":"," ","v","4",".","0","0","+">>,
       <<"P","l","a","y","R","e","s","X",":"," ">> \o FormatInt(video_info.width),
       <<"P","l","a","y","R","e","s","Y",":"," ">> \o FormatInt(video_info.height),
       <<"W","r","a","p","S","t","y","l","e",":"," ","1">>,
       <<>>,
       <<"[","V","4","+"," ","S","t","y","l","e","s","]">>,
       <<"F","o","r","m","a","t",":"," ","N","a","m","e",","," ","F","o","n","t","n","a","m","e",","," ","F","o","n","t","s","i","z","e",","," ","P","r","i","m","a","r","y","C","o","l","o","u","r",","," ","S","e","c","o","n","d","a","r","y","C","o","l","o","u","r",","," ","O","u","t","l","i","n","e","C","o","l","o","u","r",","," ","B","a","c","k","C","o","l","o","u","r",","," ","B","o","l","d",","," ","I","t","a","l","i","c",","," ","U","n","d","e","r","l","i","n","e",","," ","S","t","r","i","k","e","O","u","t",","," ","S","c","a","l","e","X",","," ","S","c","a","l","e","Y",","," ","S","p","a","c","i","n","g",","," ","A","n","g","l","e",","," ","B","o","r","d","e","r","S","t","y","l","e",","," ","O","u","t","l","i","n","e",","," ","S","h","a","d","o","w",","," ","A","l","i","g","n","m","e","n","t",","," ","M","a","r","g","i","n","L",","," ","M","a","r","g","i","n","R",","," ","M","a","r","g","i","n","V",","," ","E","n","c","o","d","i","n","g">>,
       <<"S","t","y","l","e",":"," ","D","e","f","a","u","l","t",",","I","m","p","a","c","t",",">> \o FormatInt(video_info.height \div 12) \o <<",","&","H","0","0","F","F","F","F","F","F",",","&","H","0","0","0","0","0","0","F","F",",","&","H","0","0","0","0","0","0","0","0",",","&","H","8","0","0","0","0","0","0","0",",","1",",","0",",","0",",","0",",","1","0","0",",","1","0","0",",","0",",","0",",","1",",","3",",","2",",","2",",","3","0",",","3","0",",","8","0",",","1">>,
       <<>>,
       <<"[","E","v","e","n","t","s","]">>,
       <<"F","o","r","m","a","t",":"," ","L","a","y","e","r",","," ","S","t","a","r","t",","," ","E","n","d",","," ","S","t","y","l","e",","," ","N","a","m","e",","," ","M","a","r","g","i","n","L",","," ","M","a","r","g","i","n","R",","," ","M","a","r","g","i","n","V",","," ","E","f","f","e","c","t",","," ","T","e","x","t">> >>

DialoguePrefix == <<"D","i","a","l","o","g","u","e",":"," ">>

DialogueStyle == <<",","D","e","f","a","u","l","t",",",",","0",",","0",",","0",",",",">>

\* f"Dialogue: {layer},{start_str},{end_str},Default,,0,0,0,,{event_text}"
Dialogue(layer, start_str, end_str, event_text) ==
    DialoguePrefix \o FormatInt(layer) \o <<",">> \o start_str \o <<",">> \o end_str
    \o DialogueStyle \o event_text

HighlightOn == <<"{","\\","c","&","H","0","0","0","0","F","F","&","}">>

HighlightOff == <<"{","\\","c","&","H","F","F","F","F","F","F","&","}">>

EscapedComma == <<"\\", ",">>

\* the Layer 0 line of a caption
BaselineEvent(caption) ==
    LET ws == caption.words
        all_white_text == Replace(Join(<<" ">>, [k \in DOMAIN ws |-> Upper(ws[k].text)]),
                                  <<",">>, EscapedComma)
    IN  Dialogue(0, AssTimestamp(caption.start), AssTimestamp(caption.end), all_white_text)

\* highlighted_text with the colour reset left out
HighlightedText_NoReset(ws, i) ==
    Replace(Join(<<" ">>, [j \in DOMAIN ws |-> IF j = i
                                               THEN HighlightOn \o Upper(ws[j].text)
                                               ELSE Upper(ws[j].text)]),
            <<",">>, EscapedComma)

\* highlighted_text for the word i of ws
HighlightedText(ws, i) ==
    Replace(Join(<<" ">>, [j \in DOMAIN ws |-> IF j = i
                                               THEN HighlightOn \o Upper(ws[j].text) \o HighlightOff
                                               ELSE Upper(ws[j].text)]),
            <<",">>, EscapedComma)

\* the Layer 1 line of the word i: the caption's interval in place of the word's
HighlightEvent_CaptionInterval(caption, i) ==
    Dialogue(1, AssTimestamp(caption.start), AssTimestamp(caption.end),
             HighlightedText(caption.words, i))

\* the Layer 1 line of the word i of a caption
HighlightEvent(caption, i) ==
    LET word_start == DivThousand(caption.words[i].start)
        word_end   == DivThousand(caption.words[i].end)
    IN  Dialogue(1, AssTimestamp(word_start), AssTimestamp(word_end),
                 HighlightedText(caption.words, i))

\* the lines the body of `for caption in captions` adds
CaptionEvents(caption) ==
    <<BaselineEvent(caption)>> \o [i \in DOMAIN caption.words |-> HighlightEvent(caption, i)]

RECURSIVE AllEvents(_, _)
AllEvents(caps, k) ==
    IF k > Len(caps) THEN <<>> ELSE CaptionEvents(caps[k]) \o AllEvents(caps, k + 1)

\* the function with the file left as first written
create_ass_subtitles_NoCleanup(caps, video_info) ==
    Outcome("none", WriteLines(AssHeader(video_info) \o AllEvents(caps, 1), 1))

\* the content of output_file when the function returns
create_ass_subtitles(caps, video_info) ==
    LET ass_content == WriteLines(AssHeader(video_info) \o AllEvents(caps, 1), 1)
    IN  Outcome("none", remove_unnecessary_backslashes(ass_content))

---------------------------------------------------------------------------
(* The renderers of one line per group: create_word_captions.create_text_overlay_video,
   create_smart_captions.create_smart_caption_video,
   create_whisper_captions.create_whisper_caption_video *)

\* f"{n:03d}" for an int n >= 0
FormatInt03(n) == IF n < 10 THEN <<"0", "0">> \o FormatInt(n)
                  ELSE IF n < 100 THEN <<"0">> \o FormatInt(n) ELSE FormatInt(n)

\* f"{int(t//3600):01d}:{int((t%3600)//60):02d}:{t%60:06.3f}"
OverlayTimestamp(t) ==
    FormatInt(t \div (SecondsPerHour * Thousand)) \o <<":">>
    \o FormatInt02((t % (SecondsPerHour * Thousand)) \div (SecondsPerMinute * Thousand)) \o <<":">>
    \o FormatInt02((t % (SecondsPerMinute * Thousand)) \div Thousand) \o <<".">>
    \o FormatInt03(t % Thousand)

\* the file of a header and one Layer 0 line per group, event_texts[k] being
\* the text of the line of the k-th group
OverlayFile(header, word_groups, event_texts) ==
    WriteLines(header \o [k \in DOMAIN word_groups |->
                              Dialogue(0, OverlayTimestamp(word_groups[k].start),
                                       OverlayTimestamp(word_groups[k].end),
                                       event_texts[k])], 1)

\* the text of the line upper-cased, as create_ass_subtitles does
EscapedText_Upper(group) == Replace(Upper(group.text), <<",">>, EscapedComma)

\* group['text'].replace(',', '\\,')
EscapedText(group) == Replace(group.text, <<",">>, EscapedComma)

TextOverlayHeader ==
    << <<"[","S","c","r","i","p","t"," ","I","n","f","o","]">>,
       <<"T","i","t","l","e",":"," ","W","o","r","d","-","l","e","v","e","l"," ","c","a","p","t","i","o","n","s">>,
       <<"S","c","r","i","p","t","T","y","p","e",":"," ","v","4",".","0","0","+">>,
       <<"P","l","a","y","R","e","s","X",":"," ","7","2","0">>,
       <<"P","l","a","y","R","e","s","Y",":"," ","1","2","8","0">>,
       <<>>,
       <<"[","V","4","+"," ","S","t","y","l","e","s","]">>,
       <<"F","o","r","m","a","t",":"," ","N","a","m","e",","," ","F","o","n","t","n","a","m","e",","," ","F","o","n","t","s","i","z","e",","," ","P","r","i","m","a","r","y","C","o","l","o","u","r",","," ","S","e","c","o","n","d","a","r","y","C","o","l","o","u","r",","," ","O","u","t","l","i","n","e","C","o","l","o","u","r",","," ","B","a","c","k","C","o","l","o","u","r",","," ","B","o","l","d",","," ","I","t","a","l","i","c",","," ","U","n","d","e","r","l","i","n","e",","," ","S","t","r","i","k","e","O","u","t",","," ","S","c","a","l","e","X",","," ","S","c","a","l","e","Y",","," ","S","p","a","c","i","n","g",","," ","A","n","g","l","e",","," ","B","o","r","d","e","r","S","t","y","l","e",","," ","O","u","t","l","i","n","e",","," ","S","h","a","d","o","w",","," ","A","l","i","g","n","m","e","n","t",","," ","M","a","r","g","i","n","L",","," ","M","a","r","g","i","n","R",","," ","M","a","r","g","i","n","V",","," ","E","n","c","o","d","i","n","g">>,
       <<"S","t","y","l","e",":"," ","D","e","f","a","u","l","t",",","A","r","i","a","l",",","3","2",",","&","H","0","0","F","F","F","F","F","F",",","&","H","0","0","0","0","0","0","F","F",",","&","H","0","0","0","0","0","0","0","0",",","&","H","8","0","0","0","0","0","0","0",",","1",",","0",",","0",",","0",",","1","0","0",",","1","0","0",",","0",",","0",",","1",",","2",",","1",",","2",",","2","0",",","2","0",",","4","0",",","1">>,
       <<>>,
       <<"[","E","v","e","n","t","s","]">>,
       <<"F","o","r","m","a","t",":"," ","L","a","y","e","r",","," ","S","t","a","r","t",","," ","E","n","d",","," ","S","t","y","l","e",","," ","N","a","m","e",","," ","M","a","r","g","i","n","L",","," ","M","a","r","g","i","n","R",","," ","M","a","r","g","i","n","V",","," ","E","f","f","e","c","t",","," ","T","e","x","t">> >>

\* the content of ass_file handed to ffmpeg
create_text_overlay_video(word_groups) ==
    Outcome("none", OverlayFile(TextOverlayHeader, word_groups,
                                [k \in DOMAIN word_groups |-> EscapedText(word_groups[k])]))

SmartHeader ==
    << <<"[","S","c","r","i","p","t"," ","I","n","f","o","]">>,
       <<"T","i","t","l","e",":"," ","G","P","T","-","4","o"," ","O","p","t","i","m","i","z","e","d"," ","C","a","p","t","i","o","n","s">>,
       <<"S","c","r","i","p","t","T","y","p","e",":"," ","v","4",".","0","0","+">>,
       <<"P","l","a","y","R","e","s","X",":"," ","7","2","0">>,
       <<"P","l","a","y","R","e","s","Y",":"," ","1","2","8","0">>,
       <<>>,
       <<"[","V","4","+"," ","S","t","y","l","e","s","]">>,
       <<"F","o","r","m","a","t",":"," ","N","a","m","e",","," ","F","o","n","t","n","a","m","e",","," ","F","o","n","t","s","i","z","e",","," ","P","r","i","m","a","r","y","C","o","l","o","u","r",","," ","S","e","c","o","n","d","a","r","y","C","o","l","o","u","r",","," ","O","u","t","l","i","n","e","C","o","l","o","u","r",","," ","B","a","c","k","C","o","l","o","u","r",","," ","B","o","l","d",","," ","I","t","a","l","i","c",","," ","U","n","d","e","r","l","i","n","e",","," ","S","t","r","i","k","e","O","u","t",","," ","S","c","a","l","e","X",","," ","S","c","a","l","e","Y",","," ","S","p","a","c","i","n","g",","," ","A","n","g","l","e",","," ","B","o","r","d","e","r","S","t","y","l","e",","," ","O","u","t","l","i","n","e",","," ","S","h","a","d","o","w",","," ","A","l","i","g","n","m","e","n","t",","," ","M","a","r","g","i","n","L",","," ","M","a","r","g","i","n","R",","," ","M","a","r","g","i","n","V",","," ","E","n","c","o","d","i","n","g">>,
       <<"S","t","y","l","e",":"," ","D","e","f","a","u","l","t",",","A","r","i","a","l",",","2","6",",","&","H","0","0","F","F","F","F","F","F",",","&","H","0","0","0","0","0","0","F","F",",","&","H","0","0","0","0","0","0","0","0",",","&","H","8","0","0","0","0","0","0","0",",","1",",","0",",","0",",","0",",","1","0","0",",","1","0","0",",","0",",","0",",","1",",","2",",","1",",","2",",","2","0",",","2","0",",","4","0",",","1">>,
       <<>>,
       <<"[","E","v","e","n","t","s","]">>,
       <<"F","o","r","m","a","t",":"," ","L","a","y","e","r",","," ","S","t","a","r","t",","," ","E","n","d",","," ","S","t","y","l","e",","," ","N","a","m","e",","," ","M","a","r","g","i","n","L",","," ","M","a","r","g","i","n","R",","," ","M","a","r","g","i","n","V",","," ","E","f","f","e","c","t",","," ","T","e","x","t">> >>

\* the content of ass_file handed to ffmpeg
create_smart_caption_video(word_groups) ==
    Outcome("none", OverlayFile(SmartHeader, word_groups,
                                [k \in DOMAIN word_groups |-> EscapedText(word_groups[k])]))

WhisperHeader ==
    << <<"[","S","c","r","i","p","t"," ","I","n","f","o","]">>,
       <<"T","i","t","l","e",":"," ","W","h","i","s","p","e","r"," ","A","I"," ","C","a","p","t","i","o","n","s">>,
       <<"S","c","r","i","p","t","T","y","p","e",":"," ","v","4",".","0","0","+">>,
       <<"P","l","a","y","R","e","s","X",":"," ","7","2","0">>,
       <<"P","l","a","y","R","e","s","Y",":"," ","1","2","8","0">>,
       <<>>,
       <<"[","V","4","+"," ","S","t","y","l","e","s","]">>,
       <<"F","o","r","m","a","t",":"," ","N","a","m","e",","," ","F","o","n","t","n","a","m","e",","," ","F","o","n","t","s","i","z","e",","," ","P","r","i","m","a","r","y","C","o","l","o","u","r",","," ","S","e","c","o","n","d","a","r","y","C","o","l","o","u","r",","," ","O","u","t","l","i","n","e","C","o","l","o","u","r",","," ","B","a","c","k","C","o","l","o","u","r",","," ","B","o","l","d",","," ","I","t","a","l","i","c",","," ","U","n","d","e","r","l","i","n","e",","," ","S","t","r","i","k","e","O","u","t",","," ","S","c","a","l","e","X",","," ","S","c","a","l","e","Y",","," ","S","p","a","c","i","n","g",","," ","A","n","g","l","e",","," ","B","o","r","d","e","r","S","t","y","l","e",","," ","O","u","t","l","i","n","e",","," ","S","h","a","d","o","w",","," ","A","l","i","g","n","m","e","n","t",","," ","M","a","r","g","i","n","L",","," ","M","a","r","g","i","n","R",","," ","M","a","r","g","i","n","V",","," ","E","n","c","o","d","i","n","g">>,
       <<"S","t","y","l","e",":"," ","D","e","f","a","u","l","t",",","A","r","i","a","l",",","3","0",",","&","H","0","0","F","F","F","F","F","F",",","&","H","0","0","0","0","0","0","F","F",",","&","H","0","0","0","0","0","0","0","0",",","&","H","8","0","0","0","0","0","0","0",",","1",",","0",",","0",",","0",",","1","0","0",",","1","0","0",",","0",",","0",",","1",",","2",",","1",",","2",",","2","5",",","2","5",",","4","5",",","1">>,
       <<>>,
       <<"[","E","v","e","n","t","s","]">>,
       <<"F","o","r","m","a","t",":"," ","L","a","y","e","r",","," ","S","t","a","r","t",","," ","E","n","d",","," ","S","t","y","l","e",","," ","N","a","m","e",","," ","M","a","r","g","i","n","L",","," ","M","a","r","g","i","n","R",","," ","M","a","r","g","i","n","V",","," ","E","f","f","e","c","t",","," ","T","e","x","t">> >>

KeyWords ==
    << <<"J","e","n","s","e","n">>,
       <<"H","u","a","n","g">>,
       <<"N","V","I","D","I","A">>,
       <<"G","P","U">>,
       <<"C","P","U">>,
       <<"A","I">>,
       <<"t","i","m","e">>,
       <<"m","a","c","h","i","n","e">>,
       <<"f","u","t","u","r","e">> >>

LowerChar(c) ==
    IF \E k \in DOMAIN UpperCase : UpperCase[k] = c
    THEN LowerCase[CHOOSE k \in DOMAIN UpperCase : UpperCase[k] = c]
    ELSE c

\* s.lower()
Lower(s) == [k \in DOMAIN s |-> LowerChar(s[k])]

\* s.capitalize()
Capitalize(s) == [k \in DOMAIN s |-> IF k = 1 THEN UpperChar(s[k]) ELSE LowerChar(s[k])]

\* the loop over key_words from the k-th on
RECURSIVE CapitalizeKeyWords(_, _)
CapitalizeKeyWords(s, k) ==
    IF k > Len(KeyWords) THEN s
    ELSE LET word == KeyWords[k]
         IN  CapitalizeKeyWords(Replace(Replace(s, Lower(word), Upper(word)),
                                        Capitalize(word), Upper(word)), k + 1)

WhisperText(group) == CapitalizeKeyWords(EscapedText(group), 1)

\* the content of ass_file handed to ffmpeg
create_whisper_caption_video(word_groups) ==
    Outcome("none", OverlayFile(WhisperHeader, word_groups,
                                [k \in DOMAIN word_groups |-> WhisperText(word_groups[k])]))

---------------------------------------------------------------------------
(* Inputs of the renderers: the caption groups of up to MaxRenderWords words *)

MaxRenderWords == 3

RenderWordPool ==
    { Word(<<"H","i">>, 0, 500),
      Word(<<"t","h","e","r","e",",">>, 500, 1999),
      Word(<<"o","k">>, 580, 900),
      Word(<<"t","i","m","e">>, 64580, 123450),
      Word(<<"u","h">>, 0 - 500, 0) }

RenderWordLists == UNION { [1..n -> RenderWordPool] : n \in 0..MaxRenderWords }

\* get_video_info(input_video)
VideoInfo == [width |-> 1080, height |-> 1920]

InitRender ==
    /\ pc = "start"
    /\ fn = ""
    /\ words \in RenderWordLists
    /\ document = <<>>
    /\ time_str = <<>>
    /\ window = <<0, 0>>
    /\ content = <<>>
    /\ caption_groups = create_caption_groups(words).value
    /\ cue_segments = <<>>
    /\ start_offset = 0
    /\ sheet = <<>>
    /\ step_log = <<>>
    /\ banner = FALSE
    /\ highlights_file = 0
    /\ segment_files = {}
    /\ processed_videos = <<>>
    /\ ret = NoOutcome

CallCreateAssSubtitles ==
    /\ pc = "start"
    /\ ret' = create_ass_subtitles(caption_groups, VideoInfo)
    /\ pc' = "done"
    /\ fn' = "create_ass_subtitles"
    /\ UNCHANGED <<words, document, time_str, window, content, caption_groups, cue_segments, start_offset, sheet, step_log, banner, highlights_file, segment_files, processed_videos>>

CallCreateTextOverlayVideo ==
    /\ pc = "start"
    /\ ret' = create_text_overlay_video(caption_groups)
    /\ pc' = "done"
    /\ fn' = "create_text_overlay_video"
    /\ UNCHANGED <<words, document, time_str, window, content, caption_groups, cue_segments, start_offset, sheet, step_log, banner, highlights_file, segment_files, processed_videos>>

CallCreateSmartCaptionVideo ==
    /\ pc = "start"
    /\ ret' = create_smart_caption_video(caption_groups)
    /\ pc' = "done"
    /\ fn' = "create_smart_caption_video"
    /\ UNCHANGED <<words, document, time_str, window, content, caption_groups, cue_segments, start_offset, sheet, step_log, banner, highlights_file, segment_files, processed_videos>>

CallCreateWhisperCaptionVideo ==
    /\ pc = "start"
    /\ ret' = create_whisper_caption_video(caption_groups)
    /\ pc' = "done"
    /\ fn' = "create_whisper_caption_video"
    /\ UNCHANGED <<words, document, time_str, window, content, caption_groups, cue_segments, start_offset, sheet, step_log, banner, highlights_file, segment_files, processed_videos>>

NextRender ==
    \/ CallCreateAssSubtitles
    \/ CallCreateTextOverlayVideo
    \/ CallCreateSmartCaptionVideo
    \/ CallCreateWhisperCaptionVideo

SpecRender == InitRender /\ [][NextRender]_vars

---------------------------------------------------------------------------
(* Properties of the renderers *)

Renderers ==
    { "create_ass_subtitles", "create_text_overlay_video",
      "create_smart_caption_video", "create_whisper_caption_video" }

Rendered(f) == pc = "done" /\ fn = f

RenderedAss == Rendered("create_ass_subtitles")

IsDialogue(line) == StartsWith(line, DialoguePrefix)

\* the fields of a Dialogue line; the text is the tenth field and all after it
EventOf(line) ==
    LET fields == Split(SubSeq(line, Len(DialoguePrefix) + 1, Len(line)), <<",">>)
    IN  [ layer |-> fields[1], start |-> fields[2], end |-> fields[3],
          text  |-> Join(<<",">>, SubSeq(fields, 10, Len(fields))) ]

\* the events of the document written, in file order
Events ==
    LET lines == SelectSeq(Split(ret.value, <<"\n">>), IsDialogue)
    IN  [k \in DOMAIN lines |-> EventOf(lines[k])]

\* C13 as claimed: in the document finally written by create_ass_subtitles,
\* every comma inside an event's text is preceded by exactly one backslash.
C13_CommasEscapedOnce ==
    RenderedAss =>
        LET events == Events
        IN  \A e \in DOMAIN events : \A k \in DOMAIN events[e].text :
                events[e].text[k] = "," =>
                    /\ k > 1
                    /\ events[e].text[k - 1] = "\\"
                    /\ k > 2 => events[e].text[k - 2] # "\\"

CountOf(c, s) == Cardinality({k \in DOMAIN s : s[k] = c})

\* C13 as amended: in the document finally written by create_ass_subtitles,
\* no comma of an event's text outside the override blocks is preceded by a
\* backslash, and no backslash stands outside the override blocks: the cleanup
\* pass removes the backslash that the escaping put before each comma; the
\* commas of the words are all there.
C13_CommasBareAfterCleanup ==
    RenderedAss =>
        LET events == Events
        IN  /\ \A e \in DOMAIN events : \A k \in DOMAIN events[e].text :
                   /\ (events[e].text[k] = "," /\ ~InBlock(events[e].text, k)) =>
                          (k = 1 \/ events[e].text[k - 1] # "\\")
                   /\ events[e].text[k] = "\\" => InBlock(events[e].text, k)
            /\ \A g \in DOMAIN caption_groups :
                   \E e \in DOMAIN events :
                       /\ events[e].layer = <<"0">>
                       /\ CountOf(",", events[e].text) = CountOf(",", caption_groups[g].text)

C13_Witness ==
    /\ RenderedAss
    /\ LET events == Events
       IN  \E e \in DOMAIN events :
               /\ events[e].layer = <<"1">>
               /\ CountOf(",", events[e].text) = 1

\* layer and interval of each event
SpanOf(event) == [layer |-> event.layer, start |-> event.start, end |-> event.end]

\* the layer-0 span of a group followed by the layer-1 spans of its words, the
\* word times taken in seconds
SpansOf(caption) ==
    << [ layer |-> <<"0">>, start |-> AssTimestamp(caption.start),
         end |-> AssTimestamp(caption.end) ] >>
    \o [i \in DOMAIN caption.words |->
            [ layer |-> <<"1">>,
              start |-> AssTimestamp(DivThousand(caption.words[i].start)),
              end   |-> AssTimestamp(DivThousand(caption.words[i].end)) ]]

RECURSIVE SpansFrom(_, _)
SpansFrom(caps, k) ==
    IF k > Len(caps) THEN <<>> ELSE SpansOf(caps[k]) \o SpansFrom(caps, k + 1)

RECURSIVE EventCount(_, _)
EventCount(caps, k) ==
    IF k > Len(caps) THEN 0 ELSE 1 + Len(caps[k].words) + EventCount(caps, k + 1)

\* C15: create_ass_subtitles emits for each caption group of n words, in group
\* order, exactly one layer-0 event spanning [group.start, group.end] followed
\* by exactly n layer-1 events, the i-th spanning [words[i].start,
\* words[i].end] taken in seconds as the group's interval is; the document
\* holds sum(1 + n_g) events, and the one-word group of Hi from 0 to 0.5 s
\* yields exactly a layer-0 event [0, 0.5] and a layer-1 event [0, 0.5].
C15_BaselineThenOneEventPerWord ==
    RenderedAss =>
        LET events == Events
            spans  == [k \in DOMAIN events |-> SpanOf(events[k])]
        IN
        /\ ret.raised = "none"
        /\ spans = SpansFrom(caption_groups, 1)
        /\ Len(events) = EventCount(caption_groups, 1)
        /\ words = << Word(<<"H","i">>, 0, 500) >> =>
               spans = << [layer |-> <<"0">>, start |-> <<"0",":","0","0",":","0","0",".","0","0">>,
                           end |-> <<"0",":","0","0",":","0","0",".","5","0">>],
                          [layer |-> <<"1">>, start |-> <<"0",":","0","0",":","0","0",".","0","0">>,
                           end |-> <<"0",":","0","0",":","0","0",".","5","0">>] >>

C15_Witness ==
    /\ RenderedAss
    /\ Len(caption_groups) = 2
    /\ Len(caption_groups[1].words) = 2
    /\ caption_groups[1].words[2].text = <<"o","k">>
    /\ Len(caption_groups[2].words) = 1
    /\ Len(Events) = 5

\* the characters of a text outside its override blocks
WithoutBlocks(s) ==
    LET kept == {k \in DOMAIN s : ~InBlock(s, k)}
        at(n) == CHOOSE k \in kept : Cardinality({i \in kept : i <= k}) = n
    IN  [n \in 1..Cardinality(kept) |-> s[at(n)]]

\* the position of the layer-0 event that an event follows
BaselineOf(events, e) ==
    CHOOSE b \in 1..e : /\ events[b].layer = <<"0">>
                        /\ \A m \in (b + 1)..e : events[m].layer # <<"0">>

\* C16: in every layer-1 event of create_ass_subtitles, the i-th after the
\* layer-0 event of its group, exactly one word, word i, is wrapped by the
\* highlight-colour override before it and the default-colour override after
\* it, and removing the override blocks from the event's text yields exactly
\* the text of the layer-0 event of the group.
C16_OneWordHighlighted ==
    RenderedAss =>
        LET events == Events
        IN  \A e \in DOMAIN events :
                events[e].layer = <<"1">> =>
                    LET b        == BaselineOf(events, e)
                        baseline == Split(events[b].text, <<" ">>)
                        overlay  == Split(events[e].text, <<" ">>)
                    IN  /\ Len(overlay) = Len(baseline)
                        /\ e - b \in DOMAIN baseline
                        /\ \A j \in DOMAIN baseline :
                               overlay[j] = IF j = e - b
                                            THEN HighlightOn \o baseline[j] \o HighlightOff
                                            ELSE baseline[j]
                        /\ WithoutBlocks(events[e].text) = events[b].text

C16_Witness ==
    /\ RenderedAss
    /\ Len(caption_groups) = 1
    /\ Len(caption_groups[1].words) = 3
    /\ Events[3].text = <<"H","I"," ","{","\\","c","&","H","0","0","0","0","F","F","&","}","O","K","{","\\","c","&","H","F","F","F","F","F","F","&","}"," ","U","H">>

IsLayerZero(event) == event.layer = <<"0">>

IsNotBackslash(c) == c # "\\"

HasLowerCase(s) == \E k \in DOMAIN s : \E n \in DOMAIN LowerCase : s[k] = LowerCase[n]

\* C17 as claimed: every renderer (create_ass_subtitles,
\* create_text_overlay_video, create_whisper_caption_video,
\* create_smart_caption_video) emits exactly one layer-0 event per group whose
\* text is the upper-cased form of the group's words, and no event text
\* contains a lower-case letter of the group's words.
C17_EveryRendererUpperCases ==
    (pc = "done" /\ fn \in Renderers) =>
        LET events   == Events
            baseline == SelectSeq(events, IsLayerZero)
        IN  /\ Len(baseline) = Len(caption_groups)
            /\ \A g \in DOMAIN caption_groups :
                   SelectSeq(baseline[g].text, IsNotBackslash) = Upper(caption_groups[g].text)
            /\ \A e \in DOMAIN events : ~HasLowerCase(WithoutBlocks(events[e].text))

\* the key words of create_whisper_caption_video that the words of this model spell
SpokenKeyWord == <<"t","i","m","e">>

\* C17 as amended: every renderer emits exactly one layer-0 event per group, in
\* group order. create_ass_subtitles writes the upper-cased form of the group's
\* words there, and none of its event texts has a lower-case letter outside
\* the override blocks. create_text_overlay_video and
\* create_smart_caption_video emit nothing else and write the group's text in
\* the case it was given, each comma preceded by a backslash;
\* create_whisper_caption_video does the same but for its key words (time
\* among them), which it writes in upper case.
C17_OnlyHighlightRendererUpperCases ==
    (pc = "done" /\ fn \in Renderers) =>
        LET events   == Events
            baseline == SelectSeq(events, IsLayerZero)
        IN  /\ Len(baseline) = Len(caption_groups)
            /\ fn = "create_ass_subtitles" =>
                   /\ \A g \in DOMAIN caption_groups :
                          baseline[g].text = Upper(caption_groups[g].text)
                   /\ \A e \in DOMAIN events : ~HasLowerCase(WithoutBlocks(events[e].text))
            /\ fn \in {"create_text_overlay_video", "create_smart_caption_video"} =>
                   /\ baseline = events
                   /\ \A g \in DOMAIN caption_groups :
                          baseline[g].text = Replace(caption_groups[g].text, <<",">>, <<"\\", ",">>)
            /\ fn = "create_whisper_caption_video" =>
                   /\ baseline = events
                   /\ \A g \in DOMAIN caption_groups :
                          baseline[g].text =
                              Replace(Replace(caption_groups[g].text, <<",">>, <<"\\", ",">>),
                                      SpokenKeyWord, Upper(SpokenKeyWord))

C17_Witness ==
    /\ Rendered("create_text_overlay_video")
    /\ Len(caption_groups) = 2
    /\ Events[2].text = <<"t","h","e","r","e","\\",","," ","o","k">>

\* H:MM:SS.cc of a time of t milliseconds: H = floor(t / 3600 s) unpadded, MM
\* and SS of two digits, cc = floor((t mod 1000) / 10)
TruncatedTimestamp(t) ==
    FormatInt(t \div 3600000) \o <<":">>
    \o FormatInt02((t % 3600000) \div 60000) \o <<":">>
    \o FormatInt02((t % 60000) \div 1000) \o <<".">>
    \o FormatInt02((t % 1000) \div 10)

\* the times, in seconds, that the events are written from, in file order
RECURSIVE SourceTimes(_, _)
SourceTimes(caps, k) ==
    IF k > Len(caps) THEN <<>>
    ELSE << [start |-> caps[k].start, end |-> caps[k].end] >>
         \o [i \in DOMAIN caps[k].words |->
                 [start |-> DivThousand(caps[k].words[i].start),
                  end   |-> DivThousand(caps[k].words[i].end)]]
         \o SourceTimes(caps, k + 1)

\* C18: the cue timestamp that create_ass_subtitles writes for a time t >= 0
\* is H:MM:SS.cc with H = floor(t/3600) unpadded, MM and SS in 00..59 and cc
\* the fractional second times 100 truncated: for m milliseconds,
\* cc = floor((m mod 1000) / 10); 1999 ms gives 0:00:01.99.
C18_TimestampTruncatesToCentiseconds ==
    RenderedAss =>
        LET events == Events
            times  == SourceTimes(caption_groups, 1)
        IN  /\ Len(events) = Len(times)
            /\ \A e \in DOMAIN times :
                   /\ times[e].start >= 0 => events[e].start = TruncatedTimestamp(times[e].start)
                   /\ times[e].end >= 0 => events[e].end = TruncatedTimestamp(times[e].end)
                   /\ times[e].end = 1999 => events[e].end = <<"0",":","0","0",":","0","1",".","9","9">>

\* C19: formatting a negative time as a cue timestamp fails with ValueError:
\* create_ass_subtitles never writes an event whose start or end was computed
\* from a negative time.
C19_NegativeTimeRaisesValueError ==
    RenderedAss =>
        LET times == SourceTimes(caption_groups, 1)
        IN  (\E e \in DOMAIN times : times[e].start < 0 \/ times[e].end < 0) =>
                ret.raised = "ValueError"

\* one centisecond, in seconds
Centisecond == Thousand \div 100

\* C20: for every time x >= 0, decoding the cue timestamp written for x with
\* the three-field form of parse_vtt_time_to_seconds returns a value y with
\* 0 <= x - y < one centisecond.
C20_TimestampRoundTrip ==
    RenderedAss =>
        LET events == Events
            times  == SourceTimes(caption_groups, 1)
        IN  /\ Len(events) = Len(times)
            /\ \A e \in DOMAIN times :
                   times[e].start >= 0 =>
                       LET y == parse_vtt_time_to_seconds(events[e].start)
                       IN  /\ Len(Split(events[e].start, <<":">>)) = 3
                           /\ y.raised = "none"
                           /\ 0 <= times[e].start - y.value
                           /\ times[e].start - y.value < Centisecond

---------------------------------------------------------------------------
(* create_word_captions.estimate_word_timings *)

\* text.split(): the maximal runs of characters that are not whitespace
SplitWhitespace(s) ==
    LET starts == SelectSeq([k \in 1..Len(s) |-> k],
                            LAMBDA k : /\ ~IsWhitespace(s[k])
                                       /\ (k = 1 \/ IsWhitespace(s[k - 1])))
        stop(k) == CHOOSE e \in k..Len(s) :
                       /\ \A j \in k..e : ~IsWhitespace(s[j])
                       /\ (e = Len(s) \/ IsWhitespace(s[e + 1]))
    IN  [n \in 1..Len(starts) |-> SubSeq(s, starts[n], stop(starts[n]))]

\* word i (counted from 0) of a segment of n words, before the clamp:
\* <<word_start, word_end>>
WordWindow_OneBased(segment, n, i, offset) ==
    LET segment_duration == segment.end - segment.start
        time_per_word == (segment_duration * Thousand) \div PyInt(n)
        segment_start_adjusted == segment.start - offset
        word_start == segment_start_adjusted + (PyInt(i + 1) * time_per_word) \div Thousand
        word_end == word_start + time_per_word
    IN  <<word_start, word_end>>

WordWindow(segment, n, i, offset) ==
    LET segment_duration == segment.end - segment.start
        time_per_word == (segment_duration * Thousand) \div PyInt(n)
        segment_start_adjusted == segment.start - offset
        word_start == segment_start_adjusted + (PyInt(i) * time_per_word) \div Thousand
        word_end == word_start + time_per_word
    IN  <<word_start, word_end>>

\* the body of the for loop for one segment: the word timings it appends, or
\* the exception of a division by zero
SegmentTimings_StrictDurationGuard(segment, offset) ==
    LET ws == SplitWhitespace(segment.text)
        n  == Len(ws)
        segment_duration == segment.end - segment.start
    IN  IF n = 0 THEN Outcome("none", <<>>)
        ELSE IF segment_duration < 0 THEN Outcome("none", <<>>)
        ELSE IF segment_duration = 0 \/ n = 0 THEN Outcome("ZeroDivisionError", <<>>)
        ELSE LET window_of(i) == WordWindow(segment, n, i, offset)
                 kept == SelectSeq([i \in 1..n |-> i - 1],
                                   LAMBDA i : window_of(i)[2] > 0)
                 max0(x) == IF x > 0 THEN x ELSE 0
             IN  Outcome("none",
                     [k \in 1..Len(kept) |->
                         [ word  |-> ws[kept[k] + 1],
                           start |-> max0(window_of(kept[k])[1]),
                           end   |-> max0(window_of(kept[k])[2]) ]])

SegmentTimings(segment, offset) ==
    LET ws == SplitWhitespace(segment.text)
        n  == Len(ws)
        segment_duration == segment.end - segment.start
    IN  IF n = 0 THEN Outcome("none", <<>>)
        ELSE IF segment_duration <= 0 THEN Outcome("none", <<>>)
        \* len(words) / segment_duration and segment_duration / len(words)
        ELSE IF segment_duration = 0 \/ n = 0 THEN Outcome("ZeroDivisionError", <<>>)
        ELSE LET window_of(i) == WordWindow(segment, n, i, offset)
                 kept == SelectSeq([i \in 1..n |-> i - 1],
                                   LAMBDA i : window_of(i)[2] > 0)
                 max0(x) == IF x > 0 THEN x ELSE 0
             IN  Outcome("none",
                     [k \in 1..Len(kept) |->
                         [ word  |-> ws[kept[k] + 1],
                           start |-> max0(window_of(kept[k])[1]),
                           end   |-> max0(window_of(kept[k])[2]) ]])

\* the for loop over the segments from segment k on
RECURSIVE EstimateLoop(_, _, _, _)
EstimateLoop(segments, k, offset, word_timings) ==
    IF k > Len(segments) THEN Outcome("none", word_timings)
    ELSE LET appended == SegmentTimings(segments[k], offset)
         IN  IF appended.raised # "none" THEN appended
             ELSE EstimateLoop(segments, k + 1, offset, word_timings \o appended.value)

estimate_word_timings(segments, offset) == EstimateLoop(segments, 1, offset, <<>>)

---------------------------------------------------------------------------
(* create_word_captions.create_word_groups *)

\* end_time = group_words[-1]['end'] + 0.1, in thousandths
GroupEndBuffer == 100

\* the group size chosen at word i (counted from 0) of n words
GroupSizeAt(i, n) ==
    IF i + 4 <= n THEN 3
    ELSE IF i + 3 <= n THEN 3
    ELSE IF i + 2 <= n THEN 2
    ELSE 1

\* the text of a group: ' '.join([w['word'] for w in group_words])
GroupText(group_words) == Join(<<" ">>, [k \in DOMAIN group_words |-> group_words[k].word])

MakeWordGroup(group_words) ==
    [ text  |-> GroupText(group_words),
      start |-> group_words[1].start,
      end   |-> group_words[Len(group_words)].end + GroupEndBuffer ]

\* the while loop from word i (counted from 0) on
RECURSIVE WordGroupLoop(_, _, _)
WordGroupLoop(word_timings, i, groups) ==
    IF ~(i < Len(word_timings)) THEN groups
    ELSE LET group_size  == GroupSizeAt(i, Len(word_timings))
             last        == IF i + group_size < Len(word_timings)
                            THEN i + group_size ELSE Len(word_timings)
             group_words == SubSeq(word_timings, i + 1, last)
         IN  WordGroupLoop(word_timings, i + group_size,
                           IF group_words # <<>>
                           THEN Append(groups, MakeWordGroup(group_words))
                           ELSE groups)

create_word_groups(word_timings) == Outcome("none", WordGroupLoop(word_timings, 0, <<>>))

---------------------------------------------------------------------------
(* Inputs of estimate_word_timings and create_word_groups: the cue segments
   of a clip and the clip's start, as create_short_with_text passes them *)

MaxSegments == 2

\* cues of 3, 4, 1 and no words, of zero and of negative duration
CuePool ==
    { [start |-> 1000, end |-> 2500, text |-> <<"o","n","e"," ","t","w","o"," "," ","t","h","r","e","e">>],
      [start |-> 2000, end |-> 5000, text |-> <<"a"," ","b"," ","c"," ","d">>],
      [start |-> 0,    end |-> 500,  text |-> <<"h","i">>],
      [start |-> 500,  end |-> 1250, text |-> <<" ">>],
      [start |-> 3000, end |-> 3000, text |-> <<"x"," ","y">>],
      [start |-> 4000, end |-> 3500, text |-> <<"x">>] }

SegmentLists == UNION { [1..n -> CuePool] : n \in 0..MaxSegments }

\* the clip's start in seconds
OffsetPool == {0, 1000, 1750, 2000, 6000}

InitTimings ==
    /\ pc = "start"
    /\ fn = ""
    /\ words = <<>>
    /\ document = <<>>
    /\ time_str = <<>>
    /\ window = <<0, 0>>
    /\ content = <<>>
    /\ caption_groups = <<>>
    /\ cue_segments \in SegmentLists
    /\ start_offset \in OffsetPool
    /\ sheet = <<>>
    /\ step_log = <<>>
    /\ banner = FALSE
    /\ highlights_file = 0
    /\ segment_files = {}
    /\ processed_videos = <<>>
    /\ ret = NoOutcome

CallEstimateWordTimings ==
    /\ pc = "start"
    /\ ret' = estimate_word_timings(cue_segments, start_offset)
    /\ pc' = "done"
    /\ fn' = "estimate_word_timings"
    /\ UNCHANGED <<words, document, time_str, window, content, caption_groups, cue_segments, start_offset, sheet, step_log, banner, highlights_file, segment_files, processed_videos>>

\* create_short_with_text: the word timings estimated for the clip, grouped
CallCreateWordGroups ==
    /\ pc = "start"
    /\ LET word_timings == estimate_word_timings(cue_segments, start_offset)
       IN  ret' = IF word_timings.raised # "none" THEN word_timings
                  ELSE create_word_groups(word_timings.value)
    /\ pc' = "done"
    /\ fn' = "create_word_groups"
    /\ UNCHANGED <<words, document, time_str, window, content, caption_groups, cue_segments, start_offset, sheet, step_log, banner, highlights_file, segment_files, processed_videos>>

NextTimings ==
    \/ CallEstimateWordTimings
    \/ CallCreateWordGroups

SpecTimings == InitTimings /\ [][NextTimings]_vars

---------------------------------------------------------------------------
(* Properties of estimate_word_timings and create_word_groups *)

Estimated == pc = "done" /\ fn = "estimate_word_timings"

WordsOfCue(cue) == SplitWhitespace(cue.text)

\* a cue with at least one word and positive duration
IsTimedCue(cue) == Len(WordsOfCue(cue)) >= 1 /\ cue.end - cue.start > 0

\* n times the end of the window claimed for word i (counted from 0) of a
\* cue of n words: n * (cue.start - timeOffset + (i + 1) * D / n)
ClaimedEndTimesN(cue, i) ==
    Len(WordsOfCue(cue)) * (cue.start - start_offset) + (i + 1) * (cue.end - cue.start)

\* n times the start of that window
ClaimedStartTimesN(cue, i) ==
    Len(WordsOfCue(cue)) * (cue.start - start_offset) + i * (cue.end - cue.start)

\* the words of cues k, k+1, ... whose claimed end is after the clip's start,
\* as pairs <<cue index, word index counted from 0>>
RECURSIVE ClaimedWordsFrom(_)
ClaimedWordsFrom(k) ==
    IF k > Len(cue_segments) THEN <<>>
    ELSE LET cue == cue_segments[k]
             n   == Len(WordsOfCue(cue))
         IN  (IF IsTimedCue(cue)
              THEN SelectSeq([i \in 1..n |-> <<k, i - 1>>],
                             LAMBDA p : ClaimedEndTimesN(cue, p[2]) > 0)
              ELSE <<>>) \o ClaimedWordsFrom(k + 1)

C22_TimingsClampedAndDropped ==
    Estimated =>
        LET claimed == ClaimedWordsFrom(1)
        IN  /\ ret.raised = "none"
            /\ \A j \in DOMAIN ret.value :
                   /\ ret.value[j].start >= 0
                   /\ ret.value[j].end > 0
                   /\ ret.value[j].start <= ret.value[j].end
            /\ Len(ret.value) = Len(claimed)
            /\ \A j \in DOMAIN claimed :
                   /\ IsTimedCue(cue_segments[claimed[j][1]])
                   /\ ret.value[j].word = WordsOfCue(cue_segments[claimed[j][1]])[claimed[j][2] + 1]
                   /\ ClaimedStartTimesN(cue_segments[claimed[j][1]], claimed[j][2]) < 0 =>
                          ret.value[j].start = 0

\* the clip starts at 2.0 s: of the cue from 1.0 to 2.5 s the first word ends
\* before the clip, the second ends at its start, the third is kept; the cue
\* with no duration gives nothing
C22_Witness ==
    /\ Estimated
    /\ Len(cue_segments) = 2
    /\ cue_segments[1].start = 1000 /\ cue_segments[1].end = 2500
    /\ cue_segments[2].start = 3000 /\ cue_segments[2].end = 3000
    /\ start_offset = 2000
    /\ ret.raised = "none"
    /\ Len(ret.value) = 1
    /\ ret.value[1] = [word |-> <<"t","h","r","e","e">>, start |-> 0, end |-> 500]

Grouped == pc = "done" /\ fn = "create_word_groups"

\* C24: the groups create_word_groups builds from the word timings estimated
\* for one cue do not overlap in time: each group ends no later than the
\* next one starts.
C24_WordGroupsDoNotOverlap ==
    (Grouped /\ Len(cue_segments) = 1) =>
        \A k \in 1..(Len(ret.value) - 1) : ret.value[k].end <= ret.value[k + 1].start

\* C25: for a non-empty input every group of create_word_groups has at least
\* 2 and at most 4 words, and the words of the groups, in order, are the
\* input words.
C25_GroupsOfTwoToFourWords ==
    Grouped =>
        LET word_timings == estimate_word_timings(cue_segments, start_offset).value
            input_words  == [k \in DOMAIN word_timings |-> word_timings[k].word]
        IN  word_timings # <<>> =>
                /\ ret.raised = "none"
                /\ \A k \in DOMAIN ret.value :
                       /\ Len(SplitWhitespace(ret.value[k].text)) >= 2
                       /\ Len(SplitWhitespace(ret.value[k].text)) <= 4
                /\ Join(<<" ">>, [k \in DOMAIN ret.value |-> ret.value[k].text])
                       = Join(<<" ">>, input_words)

---------------------------------------------------------------------------
(* Properties of the two window extractors *)

ExtractedSegment ==
    pc = "done" /\ fn \in {"extract_transcript_for_segment", "extract_vtt_segment"}

\* the text lines of a block that are not made of digits only, joined
SpokenTextOf(block) ==
    Join(<<" ">>, SelectSeq(TextLinesOf(block), LAMBDA line : ~IsDigit(line)))

\* C23: in extract_transcript_for_segment and extract_vtt_segment the text
\* lines of a cue end at the next line containing '-->' as well as at a
\* blank line: when a cue block follows another with no blank line between
\* them, both cues are returned and the second cue's range line is not part
\* of the first cue's text.
C23_TextEndsAtNextCueRange ==
    (ExtractedSegment /\ WellFormedDocument /\ window = <<0, 20000>>) =>
        /\ ret.raised = "none"
        /\ fn = "extract_transcript_for_segment" =>
               /\ Len(ret.value) = Len(document)
               /\ \A k \in DOMAIN ret.value : ~Contains(ret.value[k].text, ArrowMark)
        /\ fn = "extract_vtt_segment" =>
               /\ ~Contains(ret.value, ArrowMark)
               /\ ret.value = Join(<<" ">>, [k \in DOMAIN document |-> SpokenTextOf(document[k])])

---------------------------------------------------------------------------
(* create_whisper_captions.create_word_groups_from_whisper *)

\* if next_start - current_end > 0.5, in thousandths
PauseThreshold == 500

\* the group size chosen at word i (counted from 0): 3, or up to the first
\* pause found after one of the words i+1, i+2, i+3, cut to the words left
WhisperGroupSize(ws, i) ==
    LET n      == Len(ws)
        upto   == IF n - i < 4 THEN n - i ELSE 4
        pauses == { j \in 1..(upto - 1) :
                        /\ j < n - i - 1
                        /\ ws[i + j + 2].start - ws[i + j + 1].end > PauseThreshold }
        first  == CHOOSE j \in pauses : \A other \in pauses : j <= other
        group_size == IF i + 3 < n /\ pauses # {} THEN first + 1 ELSE 3
    IN  IF group_size < n - i THEN group_size ELSE n - i

\* the while loop from word i (counted from 0) on
RECURSIVE WhisperGroupLoop(_, _, _)
WhisperGroupLoop(ws, i, groups) ==
    IF ~(i < Len(ws)) THEN groups
    ELSE LET group_size  == WhisperGroupSize(ws, i)
             group_words == SubSeq(ws, i + 1, i + group_size)
         IN  WhisperGroupLoop(ws, i + group_size,
                              IF group_words # <<>>
                              THEN Append(groups, MakeWordGroup(group_words))
                              ELSE groups)

create_word_groups_from_whisper(ws) == Outcome("none", WhisperGroupLoop(ws, 0, <<>>))

---------------------------------------------------------------------------
(* Inputs of create_word_groups_from_whisper: the words of a transcription,
   in time order, each 0.25 s long, with a silence after each but the last *)

MaxWhisperWords == 5

\* the silence between two words: none, exactly 0.5 s, 0.75 s
GapPool == {0, 500, 750}

WordNames == << <<"a">>, <<"b">>, <<"c">>, <<"d">>, <<"e">>, <<"f">>, <<"g">> >>

\* the words that the silences gaps[1], gaps[2], ... separate
WordsWithGaps(gaps) ==
    LET start[k \in 1..(Len(gaps) + 1)] ==
            IF k = 1 THEN 0 ELSE start[k - 1] + 250 + gaps[k - 1]
    IN  [k \in 1..(Len(gaps) + 1) |->
            [word |-> WordNames[k], start |-> start[k], end |-> start[k] + 250]]

WhisperWordLists ==
    {<<>>} \cup { WordsWithGaps(gaps) :
                    gaps \in UNION { [1..n -> GapPool] : n \in 0..(MaxWhisperWords - 1) } }

InitWhisper ==
    /\ pc = "start"
    /\ fn = ""
    /\ words \in WhisperWordLists
    /\ document = <<>>
    /\ time_str = <<>>
    /\ window = <<0, 0>>
    /\ content = <<>>
    /\ caption_groups = <<>>
    /\ cue_segments = <<>>
    /\ start_offset = 0
    /\ sheet = <<>>
    /\ step_log = <<>>
    /\ banner = FALSE
    /\ highlights_file = 0
    /\ segment_files = {}
    /\ processed_videos = <<>>
    /\ ret = NoOutcome

CallCreateWordGroupsFromWhisper ==
    /\ pc = "start"
    /\ ret' = create_word_groups_from_whisper(words)
    /\ pc' = "done"
    /\ fn' = "create_word_groups_from_whisper"
    /\ UNCHANGED <<words, document, time_str, window, content, caption_groups, cue_segments, start_offset, sheet, step_log, banner, highlights_file, segment_files, processed_videos>>

NextWhisper == CallCreateWordGroupsFromWhisper

SpecWhisper == InitWhisper /\ [][NextWhisper]_vars

---------------------------------------------------------------------------
(* Properties of create_word_groups_from_whisper *)

GroupedFromWhisper == pc = "done" /\ fn = "create_word_groups_from_whisper"

\* the number of input words in the first k groups returned
RECURSIVE WordsInGroups(_)
WordsInGroups(k) ==
    IF k = 0 THEN 0 ELSE WordsInGroups(k - 1) + Len(SplitWhitespace(ret.value[k].text))

\* C26: create_word_groups_from_whisper breaks groups at pauses: no group
\* holds two adjacent words with next.start - previous.end > 0.5 s, every
\* group has 1 to 4 words, and the groups in order cover every input word
\* exactly once.
C26_GroupsBreakAtPauses ==
    GroupedFromWhisper =>
        /\ ret.raised = "none"
        /\ \A k \in DOMAIN ret.value :
               /\ Len(SplitWhitespace(ret.value[k].text)) >= 1
               /\ Len(SplitWhitespace(ret.value[k].text)) <= 4
        /\ Join(<<" ">>, [k \in DOMAIN ret.value |-> ret.value[k].text])
               = Join(<<" ">>, [k \in DOMAIN words |-> words[k].word])
        /\ \A p \in 1..(Len(words) - 1) :
               words[p + 1].start - words[p].end > PauseThreshold =>
                   \E k \in DOMAIN ret.value : WordsInGroups(k) = p

---------------------------------------------------------------------------
(* download_from_sheet.main and download_captions.main: one run over the
   rows of the spreadsheet *)

\* the values of the status column
SheetStatus ==
    [ pending             |-> <<"p","e","n","d","i","n","g">>,
      no_captions         |-> <<"n","o","_","c","a","p","t","i","o","n","s">>,
      downloaded          |-> <<"d","o","w","n","l","o","a","d","e","d">>,
      download_failed     |-> <<"d","o","w","n","l","o","a","d","_","f","a","i","l","e","d">>,
      error               |-> <<"e","r","r","o","r">>,
      captions_downloaded |-> <<"c","a","p","t","i","o","n","s","_","d","o","w","n","l","o","a","d","e","d">>,
      segments_downloaded |-> <<"s","e","g","m","e","n","t","s","_","d","o","w","n","l","o","a","d","e","d">>,
      segments_failed     |-> <<"s","e","g","m","e","n","t","s","_","f","a","i","l","e","d">> ]

\* row.get("status", "").lower() == "pending"
IsPending(row) == Lower(row.status) = SheetStatus.pending

\* download_from_sheet.main: the for loop from row k on; fate[k] is what the
\* try block of row k comes to: "no_captions", "downloaded",
\* "download_failed" or "error"
RECURSIVE DownloadFromSheetLoop(_, _, _)
DownloadFromSheetLoop(rows, k, fate) ==
    IF k > Len(rows) THEN rows
    ELSE IF ~IsPending(rows[k]) THEN DownloadFromSheetLoop(rows, k + 1, fate)
    ELSE IF Strip(rows[k].podcast_url) = <<>> THEN DownloadFromSheetLoop(rows, k + 1, fate)
    ELSE IF fate[k] = "no_captions"
         \* sheet.update_cell(...); continue
         THEN DownloadFromSheetLoop([rows EXCEPT ![k].status = SheetStatus.no_captions],
                                    k + 1, fate)
         \* sheet.update_cell(...); break
         ELSE [rows EXCEPT ![k].status = SheetStatus[fate[k]]]

\* download_captions.main: the for loop from row k on; fate[k] is
\* "captions_downloaded", "no_captions" or "error"
RECURSIVE DownloadCaptionsLoop(_, _, _)
DownloadCaptionsLoop(rows, k, fate) ==
    IF k > Len(rows) THEN rows
    ELSE IF ~IsPending(rows[k]) THEN DownloadCaptionsLoop(rows, k + 1, fate)
    ELSE IF Strip(rows[k].podcast_url) = <<>> THEN DownloadCaptionsLoop(rows, k + 1, fate)
    ELSE [rows EXCEPT ![k].status = SheetStatus[fate[k]]]

---------------------------------------------------------------------------
(* Inputs of the two runs: a spreadsheet of up to MaxRows rows *)

MaxRows == 3

VideoUrl == <<"h","t","t","p","s",":","/","/","y","o","u","t","u",".","b","e","/","x">>

RowPool ==
    { [status |-> SheetStatus.pending,             podcast_url |-> VideoUrl],
      [status |-> <<"P","e","n","d","i","n","g">>, podcast_url |-> VideoUrl],
      [status |-> SheetStatus.pending,             podcast_url |-> <<" ">>],
      [status |-> SheetStatus.downloaded,          podcast_url |-> VideoUrl],
      [status |-> SheetStatus.captions_downloaded, podcast_url |-> VideoUrl] }

Sheets == UNION { [1..n -> RowPool] : n \in 0..MaxRows }

InitSheet ==
    /\ pc = "start"
    /\ fn = ""
    /\ words = <<>>
    /\ document = <<>>
    /\ time_str = <<>>
    /\ window = <<0, 0>>
    /\ content = <<>>
    /\ caption_groups = <<>>
    /\ cue_segments = <<>>
    /\ start_offset = 0
    /\ sheet \in Sheets
    /\ step_log = <<>>
    /\ banner = FALSE
    /\ highlights_file = 0
    /\ segment_files = {}
    /\ processed_videos = <<>>
    /\ ret = NoOutcome

\* one run of download_from_sheet.main: check_dependencies() fails and the
\* run ends, or the rows are gone through
RunDownloadFromSheet ==
    /\ pc = "start"
    /\ \E dependencies \in BOOLEAN :
       \E fate \in [DOMAIN sheet -> {"no_captions", "downloaded", "download_failed", "error"}] :
           sheet' = IF dependencies THEN DownloadFromSheetLoop(sheet, 1, fate) ELSE sheet
    /\ pc' = "done"
    /\ fn' = "download_from_sheet"
    /\ UNCHANGED <<words, document, time_str, window, content, caption_groups, cue_segments, start_offset, step_log, banner, highlights_file, segment_files, processed_videos, ret>>

\* one run of download_captions.main
RunDownloadCaptions ==
    /\ pc = "start"
    /\ \E dependencies \in BOOLEAN :
       \E fate \in [DOMAIN sheet -> {"captions_downloaded", "no_captions", "error"}] :
           sheet' = IF dependencies THEN DownloadCaptionsLoop(sheet, 1, fate) ELSE sheet
    /\ pc' = "done"
    /\ fn' = "download_captions"
    /\ UNCHANGED <<words, document, time_str, window, content, caption_groups, cue_segments, start_offset, step_log, banner, highlights_file, segment_files, processed_videos, ret>>

NextSheet ==
    \/ RunDownloadFromSheet
    \/ RunDownloadCaptions

SpecSheet == InitSheet /\ [][NextSheet]_vars

---------------------------------------------------------------------------
(* Properties of a run over the spreadsheet *)

\* the rows whose status cell a step changes
ChangedRows == { k \in DOMAIN sheet : sheet'[k].status # sheet[k].status }

\* C28: one run of main() of download_from_sheet.py processes one row only:
\* it changes the status cell of at most one row, that row had the status
\* 'pending' before the run, and the rows after it are left as they were.
C28_OneRowPerRun ==
    [][ fn' = "download_from_sheet" =>
            /\ DOMAIN sheet' = DOMAIN sheet
            /\ Cardinality(ChangedRows) <= 1
            /\ \A k \in ChangedRows :
                   /\ IsPending(sheet[k])
                   /\ \A later \in DOMAIN sheet : later > k => sheet'[later] = sheet[later]
      ]_vars

---------------------------------------------------------------------------
(* run_pipeline.main and the main() of the four scripts it runs. How a
   script's main() ends is its `ending`; what the network, the spreadsheet
   service and the transcoder answer is chosen freely *)

PipelineSteps ==
    << "download_captions.py", "find_highlights.py", "download_segments.py",
       "create_ai_captions.py" >>

\* the endings in which main() is left by an exception nobody catches
UncaughtExceptions ==
    {"sheet_unreachable", "api_key_missing", "highlights_file_missing",
     "video_unreadable", "tool_failed"}

\* returncode of a step that could not be started
NoReturnCode == 0 - 1

\* the exit status of the interpreter: 1 after an uncaught exception, 0 when
\* main() returns
ReturnCode(ending) ==
    IF ending = "not_started" THEN NoReturnCode
    ELSE IF ending \in UncaughtExceptions THEN 1
    ELSE 0

\* run_script: subprocess.run(..., check=True) raises CalledProcessError on a
\* non-zero exit status, and any exception gives False
run_script(returncode) == returncode = 0

\* run_pipeline.main after step k: where the loop over the steps goes
AfterStep_NoReturn(success, k) ==
    IF k = Len(PipelineSteps) THEN "completed" ELSE "running"

AfterStep(success, k) ==
    IF ~success THEN "failed"
    ELSE IF k = Len(PipelineSteps) THEN "completed"
    ELSE "running"

\* what a main() leaves behind
Ending(ending, rows, highlights, segments, processed) ==
    [ ending |-> ending, sheet |-> rows, highlights_file |-> highlights,
      segment_files |-> segments, processed_videos |-> processed ]

SameWorld(ending) ==
    Ending(ending, sheet, highlights_file, segment_files, processed_videos)

\* the rows the loops of download_captions.main stop at
IsProcessable(row) == IsPending(row) /\ Strip(row.podcast_url) # <<>>

\* download_captions.main
download_captions_main ==
    {SameWorld("dependency_check_failed"), SameWorld("sheet_unreachable")}
    \cup (IF \E k \in DOMAIN sheet : IsProcessable(sheet[k])
          THEN { Ending(fate, DownloadCaptionsLoop(sheet, 1, [k \in DOMAIN sheet |-> fate]),
                        highlights_file, segment_files, processed_videos) :
                     fate \in {"captions_downloaded", "no_captions", "error"} }
          ELSE {SameWorld("no_pending_rows")})

\* find_highlights.get_video_url_from_sheet finds a row
HasVideoUrl(rows) ==
    \E k \in DOMAIN rows :
        /\ Lower(rows[k].status) = SheetStatus.captions_downloaded
        /\ Strip(rows[k].podcast_url) # <<>>

MaxHighlights == 3

\* find_highlights.main
find_highlights_main ==
    {SameWorld("no_video_url")}
    \cup (IF HasVideoUrl(sheet)
          THEN {SameWorld("no_segments"), SameWorld("no_highlights")}
               \cup { Ending("highlights_saved", sheet, n, segment_files, processed_videos) :
                          n \in 1..MaxHighlights }
          ELSE {})

\* download_segments.main: the status written to the first row that has
\* 'captions_downloaded'
SegmentsStatusWritten(rows, status) ==
    IF \E k \in DOMAIN rows : Lower(rows[k].status) = SheetStatus.captions_downloaded
    THEN LET first == CHOOSE k \in DOMAIN rows :
                          /\ Lower(rows[k].status) = SheetStatus.captions_downloaded
                          /\ \A j \in 1..(k - 1) :
                                 Lower(rows[j].status) # SheetStatus.captions_downloaded
         IN  [rows EXCEPT ![first].status = status]
    ELSE rows

\* download_segments.main, reading the file find_highlights.main writes
download_segments_main ==
    IF highlights_file = 0 THEN {SameWorld("no_highlights_file")}
    ELSE { IF downloaded # {}
           THEN Ending("segments_downloaded",
                       SegmentsStatusWritten(sheet, SheetStatus.segments_downloaded),
                       highlights_file, segment_files \cup downloaded, processed_videos)
           ELSE Ending("no_segment_downloaded",
                       SegmentsStatusWritten(sheet, SheetStatus.segments_failed),
                       highlights_file, segment_files, processed_videos) :
               downloaded \in SUBSET (1..highlights_file) }

\* the keys of the object find_highlights.main writes to highlights.json:
\* 'video_url' and 'highlights'
HighlightsFileKeys == 2

\* create_ai_captions.main: the loop `for i, highlight in enumerate(highlights, 1)`
\* from i on, over what json.load returns; the transcription fails at video
\* `failing` (0: at none)
RECURSIVE CaptionLoop(_, _, _)
CaptionLoop(i, processed, failing) ==
    IF i > HighlightsFileKeys
    THEN Ending("all_processed", sheet, highlights_file, segment_files, processed)
    ELSE IF i \notin segment_files
    THEN Ending("video_unreadable", sheet, highlights_file, segment_files, processed)
    ELSE IF i = failing
    THEN Ending("tool_failed", sheet, highlights_file, segment_files, processed)
    ELSE CaptionLoop(i + 1, Append(processed, i), failing)

\* create_ai_captions.main
create_ai_captions_main ==
    {SameWorld("api_key_missing")}
    \cup (IF highlights_file = 0 THEN {SameWorld("highlights_file_missing")}
          ELSE { CaptionLoop(1, processed_videos, failing) :
                     failing \in 0..HighlightsFileKeys })

---------------------------------------------------------------------------
(* One run of run_pipeline.main *)

MaxPipelineRows == 1

InitPipeline ==
    /\ pc = "start"
    /\ fn = ""
    /\ words = <<>>
    /\ document = <<>>
    /\ time_str = <<>>
    /\ window = <<0, 0>>
    /\ content = <<>>
    /\ caption_groups = <<>>
    /\ cue_segments = <<>>
    /\ start_offset = 0
    /\ sheet \in UNION { [1..n -> RowPool] : n \in 0..MaxPipelineRows }
    /\ step_log = <<>>
    /\ banner = FALSE
    /\ highlights_file \in 0..MaxHighlights
    /\ segment_files = {}
    /\ processed_videos = <<>>
    /\ ret = NoOutcome

\* check_dependencies(): the pipeline starts, or a script file is missing
StartPipeline ==
    /\ pc = "start"
    /\ \E found \in BOOLEAN : pc' = IF found THEN "running" ELSE "aborted"
    /\ fn' = "run_pipeline"
    /\ UNCHANGED <<sheet, step_log, banner, highlights_file, segment_files, processed_videos>>
    /\ UNCHANGED <<words, document, time_str, window, content, caption_groups, cue_segments, start_offset, ret>>

\* one turn of the loop over pipeline_steps: run_script(script) with the
\* script's main() ending as `outcome`, then the test of `success`; after
\* the last step the banner is printed
RunStep(k, outcomes) ==
    /\ pc = "running"
    /\ Len(step_log) = k - 1
    /\ \E outcome \in outcomes \cup {SameWorld("not_started")} :
           /\ step_log' = Append(step_log, [ script     |-> PipelineSteps[k],
                                             ending     |-> outcome.ending,
                                             returncode |-> ReturnCode(outcome.ending) ])
           /\ pc' = AfterStep(run_script(ReturnCode(outcome.ending)), k)
           /\ banner' = (AfterStep(run_script(ReturnCode(outcome.ending)), k) = "completed")
           /\ sheet' = outcome.sheet
           /\ highlights_file' = outcome.highlights_file
           /\ segment_files' = outcome.segment_files
           /\ processed_videos' = outcome.processed_videos
    /\ fn' = PipelineSteps[k]
    /\ UNCHANGED <<words, document, time_str, window, content, caption_groups, cue_segments, start_offset, ret>>

RunDownloadCaptionsStep == RunStep(1, download_captions_main)

RunFindHighlightsStep == RunStep(2, find_highlights_main)

RunDownloadSegmentsStep == RunStep(3, download_segments_main)

RunCreateAiCaptionsStep == RunStep(4, create_ai_captions_main)

NextPipeline ==
    \/ StartPipeline
    \/ RunDownloadCaptionsStep
    \/ RunFindHighlightsStep
    \/ RunDownloadSegmentsStep
    \/ RunCreateAiCaptionsStep

SpecPipeline == InitPipeline /\ [][NextPipeline]_vars

---------------------------------------------------------------------------
(* Properties of run_pipeline *)

\* C27: run_pipeline runs its four steps in the order download_captions,
\* find_highlights, download_segments, create_ai_captions; step k is started
\* only after the steps 1..k-1 each exited with code 0; after the first step
\* that exits non-zero no later step is started and the banner 'PIPELINE
\* COMPLETED SUCCESSFULLY' is never printed.
C27_StepsInOrderUntilFailure ==
    LET order == << "download_captions.py", "find_highlights.py",
                    "download_segments.py", "create_ai_captions.py" >>
    IN  /\ Len(step_log) <= 4
        /\ \A k \in DOMAIN step_log :
               /\ step_log[k].script = order[k]
               /\ \A j \in 1..(k - 1) : step_log[j].returncode = 0
               /\ step_log[k].returncode # 0 => (Len(step_log) = k /\ ~banner)
        /\ banner => Len(step_log) = 4

\* all four steps ran and the banner was printed
C27_Witness ==
    /\ pc = "completed"
    /\ banner
    /\ Len(step_log) = 4
    /\ step_log[4].script = "create_ai_captions.py"
    /\ \A k \in DOMAIN step_log : step_log[k].returncode = 0

\* C29: when highlights.json was written by find_highlights.main with N
\* accepted highlights and download_segments.main downloaded segment_1 ..
\* segment_N, create_ai_captions.main processes exactly the N videos
\* segment_1.mp4 .. segment_N.mp4, for every N >= 1.
C29_OneVideoPerHighlight ==
    ( /\ Len(step_log) = 4
      /\ step_log[2].ending = "highlights_saved"
      /\ step_log[3].ending = "segments_downloaded"
      /\ segment_files = 1..highlights_file
      /\ step_log[4].ending \notin {"not_started", "api_key_missing", "tool_failed"} )
    => /\ step_log[4].ending = "all_processed"
       /\ processed_videos = [i \in 1..highlights_file |-> i]

\* the endings in which a main() prints an error it found and returns
DetectedErrors ==
    {"dependency_check_failed", "no_video_url", "no_segments", "no_highlights",
     "no_highlights_file", "no_segment_downloaded"}

\* C30: run_pipeline reports success only when every step did its work: when
\* a step's main() stops early on an error it detects and prints,
\* run_pipeline treats the step as failed, starts no later step and does not
\* print 'PIPELINE COMPLETED SUCCESSFULLY'.
C30_DetectedErrorStopsPipeline ==
    \A k \in DOMAIN step_log :
        step_log[k].ending \in DetectedErrors =>
            /\ Len(step_log) = k
            /\ pc = "failed"
            /\ ~banner

=============================================================================
